---- MODULE Spec2Model ----
(***************************************************************************)
(* Model of the per-channel SFTP request loop (ServeChannel), its handle   *)
(* table (handles) and the backend resources it opens and closes.          *)
(*                                                                         *)
(* Strings are sequences of one-character strings, so that the handle      *)
(* "f" + strconv.FormatInt(c, 16) is built and taken apart as the code     *)
(* does.  One action models one pass of the loop body of ServeChannel for  *)
(* one request opcode; the block at the top of the loop that reports a     *)
(* pending non-fatal error is the action SendDeferredErr.                  *)
(*                                                                         *)
(* Spec explores sessions of a few requests of every kind, SpecFill fills  *)
(* the handle table, SpecRead reads one file at many offsets, SpecAttr     *)
(* writes and parses attribute blocks, SpecServer runs the SftpServer      *)
(* around the loop: RunServer, BlockTillReady, Close and one connection.   *)
(***************************************************************************)
EXTENDS Integers, Sequences, FiniteSets, TLC

(***************************************************************************)
(* Bounds of the exploration.                                              *)
(***************************************************************************)
\* Requests read from the channel in one session of Spec.
MaxReqs == 3
\* Requests of a session of SpecFill beyond the maxFiles OPENs that fill the table.
FillExtra == 3
\* In SpecFill, requests other than OPEN are explored once the table is within
\* FillSlack file handles of maxFiles.
FillSlack == 1
\* Requests of a session of SpecRead.
MaxReads == 4
\* Injected failures (of a backend call or of the transport) per session.
MaxFaults == 1
\* The goroutines that call BlockTillReady and Close, the calls each makes of either,
\* and the channel requests a client sends on a session channel.
MaxCallers == 2
MaxCalls == 2
MaxChanReqs == 2

(***************************************************************************)
(* Program constants.                                                      *)
(***************************************************************************)
maxFiles == 256

\* Status codes of the SFTP status taxonomy.
ssh_FX_OK == 0
ssh_FX_EOF == 1
ssh_FX_NO_SUCH_FILE == 2
ssh_FX_PERMISSION_DENIED == 3
ssh_FX_FAILURE == 4
ssh_FX_OP_UNSUPPORTED == 8

\* Go's nil error.
Nil == "nil"
\* io.EOF, io.ErrUnexpectedEOF and the error classes os.IsNotExist / os.IsPermission tell apart.
EOF == "EOF"
ErrUnexpectedEOF == "unexpected EOF"
ErrNotExist == "not exist"
ErrPermission == "permission"
ErrOther == "other"
\* An error of the transport (ssh.Channel Read or Write).
ErrTransport == "transport"
\* bufio.ErrBufferFull: Peek of a body the 64 KiB frame cannot hold.
ErrBufferFull == "bufio: buffer full"
\* The parser's accumulated error (End() on a body that does not parse to its end).
ErrParse == "parse"
ErrPacketTooShort == "Packet too short"
errInvalidHandle == "Client supplied an invalid handle"
errTooManyFiles == "Too many files"

(***************************************************************************)
(* Strings and maps.                                                       *)
(***************************************************************************)
HexDigits == <<"0", "1", "2", "3", "4", "5", "6", "7", "8", "9", "a", "b", "c", "d", "e", "f">>

\* strconv.FormatInt(n, base) for n >= 0.
RECURSIVE FormatInt(_, _)
FormatInt(n, base) ==
    IF n < base THEN <<HexDigits[n + 1]>>
    ELSE FormatInt(n \div base, base) \o <<HexDigits[(n % base) + 1]>>

\* m[k] = v of a Go map.
MapPut(m, k, v) == [x \in (DOMAIN m) \cup {k} |-> IF x = k THEN v ELSE m[x]]
\* delete(m, k) of a Go map.
MapDelete(m, k) == [x \in (DOMAIN m) \ {k} |-> m[x]]
EmptyMap == [x \in {} |-> Nil]

(***************************************************************************)
(* The handle table.                                                       *)
(***************************************************************************)
FileOpenArgs(name, flags, attr) == [name |-> name, flags |-> flags, attr |-> attr]
\* The nil *FileOpenArgs a lookup of a missing key gives.
NilFileOpenArgs == [isnil |-> TRUE]

\* handles.init
handles_init == [f |-> EmptyMap, d |-> EmptyMap, fw |-> EmptyMap, fr |-> EmptyMap,
                 dr |-> EmptyMap, c |-> 0]

nfiles(h) == Cardinality(DOMAIN h.f)

ndir(h) == Cardinality(DOMAIN h.d)

\* A newFile that numbers the handle by the size of the table.
newFile_BySize(h, f) ==
    LET k == <<"f">> \o FormatInt(Cardinality(DOMAIN h.f) + 1, 16)
    IN  [h |-> [h EXCEPT !.f = MapPut(h.f, k, f)], k |-> k]

\* h.c++ ; k := "f" + FormatInt(h.c, 16) ; h.f[k] = f ; return k
newFile(h, f) ==
    LET c2 == h.c + 1
        k  == <<"f">> \o FormatInt(c2, 16)
    IN  [h |-> [h EXCEPT !.c = c2, !.f = MapPut(h.f, k, f)], k |-> k]

newDir(h, f) ==
    LET c2 == h.c + 1
        k  == <<"d">> \o FormatInt(c2, 16)
    IN  [h |-> [h EXCEPT !.c = c2, !.d = MapPut(h.d, k, f)], k |-> k]

\* A getFile that answers a missing key with empty open arguments.
getFile_Lenient(h, n) == IF n \in DOMAIN h.f THEN h.f[n] ELSE FileOpenArgs(<<>>, 0, <<>>)

getFile(h, n) == IF n \in DOMAIN h.f THEN h.f[n] ELSE NilFileOpenArgs

\* A missing key gives the zero value of string.
getDir(h, n) == IF n \in DOMAIN h.d THEN h.d[n] ELSE <<>>

\* A closeHandle that forgets the reader of a file handle.
closeHandle_LeaveReader(h, k) ==
    IF k = <<>> THEN [h |-> h, closed |-> <<>>]
    ELSE IF k[1] = "f" THEN
        [h |-> [h EXCEPT !.f = MapDelete(h.f, k), !.fw = MapDelete(h.fw, k)],
         closed |-> IF k \in DOMAIN h.fw THEN <<h.fw[k]>> ELSE <<>>]
    ELSE [h |-> [h EXCEPT !.d = MapDelete(h.d, k), !.dr = MapDelete(h.dr, k)],
          closed |-> IF k \in DOMAIN h.dr THEN <<h.dr[k]>> ELSE <<>>]

\* A closeHandle that empties the reader map when it closes a file handle.
closeHandle_DropAllReaders(h, k) ==
    IF k = <<>> THEN [h |-> h, closed |-> <<>>]
    ELSE IF k[1] = "f" THEN
        LET cw == IF k \in DOMAIN h.fw THEN <<h.fw[k]>> ELSE <<>>
            cr == IF k \in DOMAIN h.fr THEN <<h.fr[k]>> ELSE <<>>
        IN  [h |-> [h EXCEPT !.f = MapDelete(h.f, k), !.fw = MapDelete(h.fw, k),
                             !.fr = EmptyMap],
             closed |-> cw \o cr]
    ELSE IF k[1] = "d" THEN
        LET cd == IF k \in DOMAIN h.dr THEN <<h.dr[k]>> ELSE <<>>
        IN  [h |-> [h EXCEPT !.d = MapDelete(h.d, k), !.dr = MapDelete(h.dr, k)],
             closed |-> cd]
    ELSE [h |-> h, closed |-> <<>>]

\* closeHandle: the table afterwards and the adapters it called Close on, in order.
closeHandle(h, k) ==
    IF k = <<>> THEN [h |-> h, closed |-> <<>>]
    ELSE IF k[1] = "f" THEN
        LET cw == IF k \in DOMAIN h.fw THEN <<h.fw[k]>> ELSE <<>>
            cr == IF k \in DOMAIN h.fr THEN <<h.fr[k]>> ELSE <<>>
        IN  [h |-> [h EXCEPT !.f = MapDelete(h.f, k), !.fw = MapDelete(h.fw, k),
                             !.fr = MapDelete(h.fr, k)],
             closed |-> cw \o cr]
    ELSE IF k[1] = "d" THEN
        LET cd == IF k \in DOMAIN h.dr THEN <<h.dr[k]>> ELSE <<>>
        IN  [h |-> [h EXCEPT !.d = MapDelete(h.d, k), !.dr = MapDelete(h.dr, k)],
             closed |-> cd]
    ELSE [h |-> h, closed |-> <<>>]

(***************************************************************************)
(* Attributes.                                                             *)
(***************************************************************************)
\* A 32 bit word of flags (Attr.Flags, os.FileMode, the mode on the wire) is the set
\* of the positions of its one bits; the attribute bits 0x1, 0x2, 0x4, 0x8 and
\* 0x80000000 are the positions 0, 1, 2, 3 and 31.
ssh_FILEXFER_ATTR_SIZE == 0
ssh_FILEXFER_ATTR_UIDGID == 1
ssh_FILEXFER_ATTR_PERMISSIONS == 2
ssh_FILEXFER_ATTR_ACMODTIME == 3
ssh_FILEXFER_ATTR_EXTENDED == 31

\* a.Flags & bit != 0.
HasFlag(flags, bit) == bit \in flags

\* An int64 is its four 16 bit limbs in two's complement, the most significant first:
\* Int64(n) is the int64 of an integer n that fits 32 bits.
Int64(n) ==
    LET top == IF n < 0 THEN 65535 ELSE 0
    IN  <<top, top, (n \div 65536) % 65536, n % 65536>>

\* uint32(x) of an int64 x: its low 32 bits, as the two 16 bit limbs of a uint32.
uint32(x) == <<x[3], x[4]>>

\* A time.Time is <<Unix(), Nanosecond()>>: the int64 count of whole seconds since the
\* Unix epoch, and the nanoseconds within the second.
\* The zero time.Time is January 1, year 1, 00:00:00 UTC: Unix() = -62135596800 =
\* 0xfffffff1886e0900.
ZeroTime == << <<65535, 65521, 34926, 2304>>, 0 >>

Attr(flags, size, uid, gid, mode, atime, mtime, extended) ==
    [Flags |-> flags, Size |-> size, Uid |-> uid, Gid |-> gid, Mode |-> mode,
     ATime |-> atime, MTime |-> mtime, Extended |-> extended]

\* The zero Attr ("var a Attr").
ZeroAttr == Attr({}, 0, 0, 0, {}, ZeroTime, ZeroTime, <<>>)

RECURSIVE SumLen(_)
SumLen(ss) == IF ss = <<>> THEN 0 ELSE 4 + Len(Head(ss)) + SumLen(Tail(ss))

\* Bytes parseAttr consumes for an attribute block that encodes a.
AttrWireLen(a) ==
    4 + (IF HasFlag(a.Flags, ssh_FILEXFER_ATTR_SIZE) THEN 8 ELSE 0)
      + (IF HasFlag(a.Flags, ssh_FILEXFER_ATTR_UIDGID) THEN 8 ELSE 0)
      + (IF HasFlag(a.Flags, ssh_FILEXFER_ATTR_PERMISSIONS) THEN 4 ELSE 0)
      + (IF HasFlag(a.Flags, ssh_FILEXFER_ATTR_ACMODTIME) THEN 8 ELSE 0)
      + (IF HasFlag(a.Flags, ssh_FILEXFER_ATTR_EXTENDED) THEN 4 + SumLen(a.Extended) ELSE 0)

\* os.ModeDir, bit 31 of an os.FileMode; the permission bits are the positions 0..8.
MODE_DIR == 31

\* fileModeToSftp: the permission bits, and 040000 (bit 14) for a directory or
\* 0100000 (bit 15) for a regular file, one with no bit of os.ModeType.
fileModeToSftp(m) ==
    LET raw == m \cap (0..8)
    IN  IF MODE_DIR \in m THEN raw \cup {14}
        ELSE IF m \cap {31, 27, 26, 25, 24, 21, 19} = {} THEN raw \cup {15}
        ELSE raw

\* An sftpToFileMode that forgets the directory bit.
sftpToFileMode_NoDir(raw) == raw \cap (0..8)

\* sftpToFileMode: raw & 0777, and os.ModeDir when bit 14 is set.
sftpToFileMode(raw) ==
    (raw \cap (0..8)) \cup (IF 14 \in raw THEN {MODE_DIR} ELSE {})

\* One field put on the wire by the printer: its kind (B32, B64, B32String), its value,
\* and the attribute group whose lines wrote it.
Fld(g, t, v) == [g |-> g, t |-> t, v |-> v]

\* outTimes: uint32(a.ATime.Unix()), then uint32(a.MTime.Unix()).
outTimes(a) ==
    << Fld("acmodtime", "B32", uint32(a.ATime[1])),
       Fld("acmodtime", "B32", uint32(a.MTime[1])) >>

\* inTimes: time.Unix(int64(at), 0) and time.Unix(int64(mt), 0) of the uint32 at and mt.
inTimes(at, mt) ==
    [ATime |-> << <<0, 0, at[1], at[2]>>, 0 >>, MTime |-> << <<0, 0, mt[1], mt[2]>>, 0 >>]

\* The attribute block of writeAttr: the flags word, then the groups whose bit is set.
writeAttr_Block(a) ==
    <<Fld("flags", "B32", a.Flags)>>
    \o (IF HasFlag(a.Flags, ssh_FILEXFER_ATTR_SIZE)
        THEN <<Fld("size", "B64", a.Size)>> ELSE <<>>)
    \o (IF HasFlag(a.Flags, ssh_FILEXFER_ATTR_UIDGID)
        THEN <<Fld("uidgid", "B32", a.Uid), Fld("uidgid", "B32", a.Gid)>> ELSE <<>>)
    \o (IF HasFlag(a.Flags, ssh_FILEXFER_ATTR_PERMISSIONS)
        THEN <<Fld("permissions", "B32", fileModeToSftp(a.Mode))>> ELSE <<>>)
    \o (IF HasFlag(a.Flags, ssh_FILEXFER_ATTR_ACMODTIME) THEN outTimes(a) ELSE <<>>)
    \o (IF HasFlag(a.Flags, ssh_FILEXFER_ATTR_EXTENDED)
        THEN <<Fld("extended", "B32", Len(a.Extended) \div 2)>>
             \o [i \in 1..Len(a.Extended) |-> Fld("extended", "B32String", a.Extended[i])]
        ELSE <<>>)

\* The attributes of one entry of the NAME packet of READDIR: fi.Flags, then the
\* groups the loop writes.
readdir_Block(fi) ==
    <<Fld("flags", "B32", fi.Flags)>>
    \o (IF HasFlag(fi.Flags, ssh_FILEXFER_ATTR_SIZE)
        THEN <<Fld("size", "B64", fi.Size)>> ELSE <<>>)
    \o (IF HasFlag(fi.Flags, ssh_FILEXFER_ATTR_UIDGID)
        THEN <<Fld("uidgid", "B32", fi.Uid), Fld("uidgid", "B32", fi.Gid)>> ELSE <<>>)
    \o (IF HasFlag(fi.Flags, ssh_FILEXFER_ATTR_PERMISSIONS)
        THEN <<Fld("permissions", "B32", fileModeToSftp(fi.Mode))>> ELSE <<>>)
    \o (IF HasFlag(fi.Flags, ssh_FILEXFER_ATTR_ACMODTIME) THEN outTimes(fi) ELSE <<>>)

\* parseAttr on the fields `toks` of a packet, from field `from` on, into a zero Attr:
\* the flags, then every group whose bit is set; more than 0xFF extended pairs, or a
\* field that is missing or of another kind, fails the parse.  `next` is the first
\* field parseAttr has not consumed.
parseAttr(toks, from) ==
    LET Is(i, t) == i <= Len(toks) /\ toks[i].t = t
        flags == IF Is(from, "B32") THEN toks[from].v ELSE {}
        has(b) == HasFlag(flags, b)
        iSize == from + 1
        iUid  == iSize + (IF has(ssh_FILEXFER_ATTR_SIZE) THEN 1 ELSE 0)
        iMode == iUid + (IF has(ssh_FILEXFER_ATTR_UIDGID) THEN 2 ELSE 0)
        iTime == iMode + (IF has(ssh_FILEXFER_ATTR_PERMISSIONS) THEN 1 ELSE 0)
        iExt  == iTime + (IF has(ssh_FILEXFER_ATTR_ACMODTIME) THEN 2 ELSE 0)
        count == IF has(ssh_FILEXFER_ATTR_EXTENDED) /\ Is(iExt, "B32")
                 THEN toks[iExt].v ELSE 0
        iEnd  == iExt + (IF has(ssh_FILEXFER_ATTR_EXTENDED) THEN 1 + 2 * count ELSE 0)
        ok    == /\ Is(from, "B32")
                 /\ has(ssh_FILEXFER_ATTR_SIZE) => Is(iSize, "B64")
                 /\ has(ssh_FILEXFER_ATTR_UIDGID) => Is(iUid, "B32") /\ Is(iUid + 1, "B32")
                 /\ has(ssh_FILEXFER_ATTR_PERMISSIONS) => Is(iMode, "B32")
                 /\ has(ssh_FILEXFER_ATTR_ACMODTIME) => Is(iTime, "B32") /\ Is(iTime + 1, "B32")
                 /\ has(ssh_FILEXFER_ATTR_EXTENDED) =>
                        /\ Is(iExt, "B32")
                        /\ count <= 255
                        /\ \A i \in 1..(2 * count) : Is(iExt + i, "B32String")
    IN  IF ~ok THEN [ok |-> FALSE, a |-> ZeroAttr, next |-> from]
        ELSE [ok |-> TRUE,
              next |-> iEnd,
              a |-> Attr(flags,
                         IF has(ssh_FILEXFER_ATTR_SIZE) THEN toks[iSize].v ELSE 0,
                         IF has(ssh_FILEXFER_ATTR_UIDGID) THEN toks[iUid].v ELSE 0,
                         IF has(ssh_FILEXFER_ATTR_UIDGID) THEN toks[iUid + 1].v ELSE 0,
                         IF has(ssh_FILEXFER_ATTR_PERMISSIONS)
                         THEN sftpToFileMode(toks[iMode].v) ELSE {},
                         IF has(ssh_FILEXFER_ATTR_ACMODTIME)
                         THEN inTimes(toks[iTime].v, toks[iTime + 1].v).ATime
                         ELSE ZeroTime,
                         IF has(ssh_FILEXFER_ATTR_ACMODTIME)
                         THEN inTimes(toks[iTime].v, toks[iTime + 1].v).MTime
                         ELSE ZeroTime,
                         IF has(ssh_FILEXFER_ATTR_EXTENDED)
                         THEN [i \in 1..(2 * count) |-> toks[iExt + i].v] ELSE <<>>)]

(***************************************************************************)
(* Responses written to the channel.                                       *)
(***************************************************************************)
\* initReply: the pre-encoded VERSION packet, version 3, no id.
initReply == [t |-> "VERSION", version |-> 3]

\* writeErrCode: failTmpl with the id put at bytes 5..8 and the code at byte 12.
writeErrCode(rid, code) == [t |-> "STATUS", id |-> rid, code |-> code]

\* A writeErr that takes a missing file for a forbidden one.
writeErr_NotExistAsPermission(rid, err) ==
    writeErrCode(rid,
        IF err = Nil THEN ssh_FX_OK
        ELSE IF err = EOF THEN ssh_FX_EOF
        ELSE IF err \in {ErrPermission, ErrNotExist} THEN ssh_FX_PERMISSION_DENIED
        ELSE ssh_FX_FAILURE)

\* writeErr: the status code of an error value.
writeErr(rid, err) ==
    writeErrCode(rid,
        IF err = Nil THEN ssh_FX_OK
        ELSE IF err = EOF THEN ssh_FX_EOF
        ELSE IF err = ErrPermission THEN ssh_FX_PERMISSION_DENIED
        ELSE IF err = ErrNotExist THEN ssh_FX_NO_SUCH_FILE
        ELSE ssh_FX_FAILURE)

writeHandle(rid, handle) == [t |-> "HANDLE", id |-> rid, handle |-> handle]

\* The DATA packet of READ: header and payload, two writes on the channel.
writeData(rid, bs) == [t |-> "DATA", id |-> rid, data |-> bs]

\* A writeAttr that does not look at the error.
writeAttr_IgnoreErr(rid, a, err) ==
    [t |-> "ATTRS", id |-> rid, attr |-> a, block |-> writeAttr_Block(a)]

\* writeAttr: the error as a status, or the ATTRS packet.
writeAttr(rid, a, err) ==
    IF err # Nil THEN writeErr(rid, err)
    ELSE [t |-> "ATTRS", id |-> rid, attr |-> a, block |-> writeAttr_Block(a)]

\* writeNameOnly: the error as a status, or a NAME packet of one entry, flags 0.
writeNameOnly(rid, path, err) ==
    IF err # Nil THEN writeErr(rid, err)
    ELSE [t |-> "NAME", id |-> rid,
          names |-> <<[name |-> path, longname |-> path, flags |-> 0]>>]

(***************************************************************************)
(* State.                                                                  *)
(***************************************************************************)
VARIABLES
    h,          \* the handle table of ServeChannel (var h handles)
    e,          \* var e error, as it stands at the top of the loop
    id,         \* var id uint32: it outlives the iteration that parsed it
    plen,       \* var plen int: body bytes of the last packet, not yet discarded
    brd,        \* the reader's place in the stream, counted from the start of the
                \* last packet: off, the bytes read from there on; end, where that
                \* packet ends (4 + its length field); skew, how far from the end
                \* of the packets before it its header was read
    ret,        \* whether ServeChannel has returned, and its error value
    chanCloses, \* calls of c.Close()
    wbroken,    \* the channel refuses writes (the peer or the transport is gone)
    req,        \* the packet read by the last pass of the loop, if it read one
    sent,       \* the responses written by the last step
    nreq,       \* packet headers read
    nknown,     \* requests dispatched to a case of the switch
    nresp,      \* responses written
    issued,     \* the handles written in HANDLE responses, in order
    closedH,    \* issued handles for which a CLOSE was processed afterwards
    fs,         \* the backend: the resources it has handed out
    calls,      \* the backend calls of the last step, in order
    faults,     \* backend failures so far
    fsExt,      \* the optional capabilities the FileSystem implements
    codec,      \* an Attr, its attribute block as written, the block as parsed
    srv         \* the SftpServer: its channels, its listener, the goroutines around it

\* The state no step of ServeChannel touches.
offChannel == <<codec, srv>>

\* The state of one ServeChannel and of its backend.
onChannel == <<h, e, id, plen, brd, ret, chanCloses, wbroken, req, sent, nreq, nknown,
               nresp, issued, closedH, fs, calls, faults, fsExt>>

vars == <<onChannel, offChannel>>

\* No attribute block under way.
NoCodec == [pc |-> "none"]

\* The goroutines of the embedding program that call BlockTillReady and Close.
Callers == 1..MaxCallers

\* NewSftpServer: two open channels of capacity one, nothing sent; RunServer not yet
\* called, no connection yet.
NewSftpServer ==
    [readyChan |-> [buf |-> <<>>, closed |-> FALSE],
     connChan |-> [buf |-> <<>>, closed |-> FALSE],
     listener |-> "unset",      \* runServer's listener: unset, nil, open or closed
     lisCloses |-> 0,           \* calls of Close on the listener
     run |-> [pc |-> "new", e |-> Nil, ret |-> Nil],
     btr |-> [c \in Callers |-> <<>>],        \* what each BlockTillReady call returned
     close |-> [c \in Callers |-> [pc |-> "idle", n |-> 0]],
     driverCloses |-> 0,
     conn |-> "none",           \* the connection: none, handshake, open or closed
     session |-> FALSE,         \* a session channel was accepted
     rejects |-> 0,             \* channels rejected
     chanReq |-> <<>>,          \* the request the request goroutine took and has not
                                \* answered yet: <<>>, or <<ok>> with the ok of its reply
     replies |-> <<>>,          \* the replies to the requests on the session channel
     tasks |-> <<>>]            \* the goroutines started for "subsystem sftp" requests

NoReq == [op |-> "none"]

\* The backends explored: a plain FileSystem, and one that also implements
\* FileSystemExtentionFileTransfer and FileSystemExtensionFileList.
FsKinds == {[transfer |-> b, list |-> b] : b \in BOOLEAN}

\* The state when ServeChannel enters its loop: h.init() done, nothing read or written.
Init ==
    /\ h = handles_init
    /\ e = Nil
    /\ id = 0
    /\ plen = 0
    /\ brd = [off |-> 0, end |-> 0, skew |-> 0]
    /\ ret = [done |-> FALSE, err |-> Nil]
    /\ chanCloses = 0
    /\ wbroken = FALSE
    /\ req = NoReq
    /\ sent = <<>>
    /\ nreq = 0
    /\ nknown = 0
    /\ nresp = 0
    /\ issued = <<>>
    /\ closedH = {}
    /\ fs = [res |-> <<>>]
    /\ calls = <<>>
    /\ faults = 0
    /\ fsExt \in FsKinds
    /\ codec = NoCodec
    /\ srv = NewSftpServer

Running == ~ret.done

(***************************************************************************)
(* The ways one pass of the loop ends.                                     *)
(***************************************************************************)
\* "e = write(...)" followed by the check after the switch: the response is written
\* and the loop goes on, or the write fails and ServeChannel returns the error.
Reply(resp) == [k |-> "reply", resp |-> resp]
\* A "continue" that forgets the error.
Defer_Dropped(err) == [k |-> "none"]
\* "e = err; continue": the error waits for the top of the loop.
Defer(err) == [k |-> "defer", err |-> err]
\* "return err".
Return(err) == [k |-> "return", err |-> err]
\* No case of the switch was taken (or none that writes).
NoReply == [k |-> "none"]

\* wrc(c, bs): the transport's verdict on a write.
wrc == IF wbroken THEN ErrTransport ELSE Nil

\* What a pass leaves behind: `how` is one of the four endings above.  A return runs
\* the deferred c.Close().
Finish(how) ==
    LET written == how.k = "reply" /\ wrc = Nil
        failed  == how.k = "reply" /\ wrc # Nil
    IN  /\ sent' = IF written THEN <<how.resp>> ELSE <<>>
        /\ nresp' = IF written THEN nresp + 1 ELSE nresp
        /\ issued' = IF written /\ how.resp.t = "HANDLE"
                     THEN Append(issued, how.resp.handle) ELSE issued
        /\ e' = IF how.k = "defer" THEN how.err ELSE Nil
        /\ ret' = IF how.k = "return" THEN [done |-> TRUE, err |-> how.err]
                  ELSE IF failed THEN [done |-> TRUE, err |-> wrc]
                  ELSE ret
        /\ chanCloses' = IF how.k = "return" \/ failed THEN chanCloses + 1 ELSE chanCloses
        /\ UNCHANGED offChannel

\* A discard that leaves the peeked body in the reader.
discard_Nothing(n) == 0

\* discard(brd, n): the bytes it takes from the reader, which holds the n bytes that
\* were peeked; a LimitedReader of no bytes takes none.

discard(n) == IF n <= 0 THEN 0 ELSE n

\* Lines 47..63 for a packet whose header and body arrive: the old body is discarded,
\* five header bytes are read (a length field of bodylen + 1, and the opcode), the
\* body is peeked.
ReadPacket(r, bodylen) ==
    /\ Running
    /\ e = Nil
    /\ plen' = bodylen
    /\ brd' = [off |-> 5, end |-> 4 + (bodylen + 1),
               skew |-> brd.skew + (brd.off + discard(plen)) - brd.end]
    /\ nreq' = nreq + 1
    /\ req' = r

\* The top of the loop with an error pending: it is written as a status for the id
\* parsed last, and the loop goes on to the next packet unless the write fails.
SendDeferredErr ==
    /\ Running
    /\ e # Nil
    /\ Finish(Reply(writeErr(id, e)))
    /\ UNCHANGED <<h, id, plen, brd, wbroken, req, nreq, nknown, closedH, fs, calls,
                   faults, fsExt>>

\* The transport stops taking writes.
TransportBreak ==
    /\ Running
    /\ ~wbroken
    /\ faults < MaxFaults
    /\ wbroken' = TRUE
    /\ faults' = faults + 1
    /\ UNCHANGED <<h, e, id, plen, brd, ret, chanCloses, req, sent, nreq, nknown,
                   nresp, issued, closedH, fs, calls, fsExt, offChannel>>

(***************************************************************************)
(* Requests: the fields the parser hands to each case of the switch, and   *)
(* the body length of the packet that encodes them.                        *)
(***************************************************************************)
B32String(s) == 4 + Len(s)

BodyLen(r) ==
    CASE r.op = "OPEN"     -> 4 + B32String(r.path) + 4 + AttrWireLen(r.attr)
      [] r.op = "CLOSE"    -> 4 + B32String(r.handle)
      [] r.op = "READ"     -> 4 + B32String(r.handle) + 8 + 4
      [] r.op = "WRITE"    -> 4 + B32String(r.handle) + 8 + 4 + Len(r.data)
      [] r.op = "LSTAT"    -> 4 + B32String(r.path)
      [] r.op = "STAT"     -> 4 + B32String(r.path)
      [] r.op = "FSTAT"    -> 4 + B32String(r.handle)
      [] r.op = "SETSTAT"  -> 4 + B32String(r.path) + AttrWireLen(r.attr)
      [] r.op = "FSETSTAT" -> 4 + B32String(r.handle) + AttrWireLen(r.attr)
      [] r.op = "OPENDIR"  -> 4 + B32String(r.path)
      [] r.op = "READDIR"  -> 4 + B32String(r.handle)
      [] r.op = "REMOVE"   -> 4 + B32String(r.path)
      [] r.op = "MKDIR"    -> 4 + B32String(r.path) + AttrWireLen(r.attr)
      [] r.op = "RMDIR"    -> 4 + B32String(r.path)
      [] r.op = "REALPATH" -> 4 + B32String(r.path)
      [] r.op = "RENAME"   -> 4 + B32String(r.path) + B32String(r.newpath) + 4
      [] r.op = "READLINK" -> 4 + B32String(r.path)
      [] OTHER             -> r.blen

(***************************************************************************)
(* The backend: FileSystem, File / FileTransfer, Dir.                      *)
(***************************************************************************)
\* The bytes of every file of the backend.
FileData == <<"a", "b", "c">>

\* The entries of every directory of the backend.
DirEntries ==
    << [Name |-> <<"x">>,
        Attr |-> Attr({ssh_FILEXFER_ATTR_SIZE}, 3, 0, 0, {}, ZeroTime, ZeroTime, <<>>)],
       [Name |-> <<"y">>,
        Attr |-> Attr({ssh_FILEXFER_ATTR_PERMISSIONS, ssh_FILEXFER_ATTR_EXTENDED},
                      0, 0, 0, {MODE_DIR, 8, 7, 6}, ZeroTime, ZeroTime, <<"k", "v">>)] >>

\* What Stat answers for every path.
StatAttr == Attr({ssh_FILEXFER_ATTR_SIZE}, 3, 0, 0, {}, ZeroTime, ZeroTime, <<>>)

\* A fault injected into one backend call of a step: none, or the error the first call
\* of the stage returns.
NoFault == [at |-> "none", err |-> Nil]
Fault(at, err) == [at |-> at, err |-> err]
FaultAt(flt, stage) == IF flt.at = stage THEN flt.err ELSE Nil

\* A resource the backend hands out: a File (OpenFile), a FileTransfer (GetHandle)
\* or a Dir (OpenDir); pos is its stream position, closes counts its Close calls.
Resource(kind, name, pos) == [kind |-> kind, name |-> name, pos |-> pos, closes |-> 0]

Call(fn, arg, err) == [fn |-> fn, arg |-> arg, err |-> err]

Min(a, b) == IF a < b THEN a ELSE b

\* One Read(p) of a stream at pos, len(p) = n.  A reader that has delivered its last
\* byte may say io.EOF with the data (early) or on the next call.
StreamRead(data, pos, n, early) ==
    LET rem == IF pos < Len(data) THEN Len(data) - pos ELSE 0
        k   == Min(n, rem)
    IN  [n |-> k,
         err |-> IF n = 0 THEN Nil
                 ELSE IF rem = 0 THEN EOF
                 ELSE IF k = rem /\ early THEN EOF
                 ELSE Nil]

\* The loop of BufferedReader.ReadAt: Read(p[num:]) until an error or a full buffer.
RECURSIVE ReadLoop(_, _, _, _, _, _)
ReadLoop(data, pos, num, length, early, ioerr) ==
    LET r    == IF ioerr # Nil THEN [n |-> 0, err |-> ioerr]
                ELSE StreamRead(data, pos, length - num, early)
        num2 == num + r.n
    IN  IF r.err # Nil \/ num2 >= length
        THEN [num |-> num2, err |-> r.err, pos |-> pos + r.n, reads |-> 1]
        ELSE LET rest == ReadLoop(data, pos + r.n, num2, length, early, Nil)
             IN  [rest EXCEPT !.reads = @ + 1]

BufferedReader(r, cur) == [type |-> "BufferedReader", r |-> r, cur |-> cur]

\* A ReadAt that leaves the cursor where the seek put it.
BufferedReader_ReadAt_StaleCursor(b, bfs, length, off, flt, early) ==
    LET seekerr == IF off # b.cur THEN FaultAt(flt, "seek") ELSE Nil
        seeks   == IF off # b.cur THEN <<Call("Seek", off, seekerr)>> ELSE <<>>
    IN  IF seekerr # Nil
        THEN [b |-> b, fs |-> bfs, n |-> 0, err |-> seekerr, data |-> <<>>, calls |-> seeks]
        ELSE LET start == IF off # b.cur THEN off ELSE bfs.res[b.r].pos
                 cur1  == IF off # b.cur THEN off ELSE b.cur
                 lp    == ReadLoop(FileData, start, 0, length, early, FaultAt(flt, "io"))
             IN  [b |-> [b EXCEPT !.cur = cur1],
                  fs |-> [bfs EXCEPT !.res[b.r].pos = lp.pos],
                  n |-> lp.num, err |-> lp.err,
                  data |-> SubSeq(FileData, start + 1, start + lp.num),
                  calls |-> seeks \o <<Call("Read", length, lp.err)>>]

\* BufferedReader.ReadAt(p, off), len(p) = length, on the backend state bfs.
\* Gives the adapter and the backend afterwards, the bytes read and the error.
BufferedReader_ReadAt(b, bfs, length, off, flt, early) ==
    LET seekerr == IF off # b.cur THEN FaultAt(flt, "seek") ELSE Nil
        seeks   == IF off # b.cur THEN <<Call("Seek", off, seekerr)>> ELSE <<>>
    IN  IF seekerr # Nil
        THEN [b |-> b, fs |-> bfs, n |-> 0, err |-> seekerr, data |-> <<>>, calls |-> seeks]
        ELSE LET start == IF off # b.cur THEN off ELSE bfs.res[b.r].pos
                 cur1  == IF off # b.cur THEN off ELSE b.cur
                 lp    == ReadLoop(FileData, start, 0, length, early, FaultAt(flt, "io"))
             IN  [b |-> [b EXCEPT !.cur = cur1 + lp.num],
                  fs |-> [bfs EXCEPT !.res[b.r].pos = lp.pos],
                  n |-> lp.num, err |-> lp.err,
                  data |-> SubSeq(FileData, start + 1, start + lp.num),
                  calls |-> seeks \o <<Call("Read", length, lp.err)>>]

AutoSeekWriter(w, cur) == [type |-> "AutoSeekWriter", w |-> w, cur |-> cur]

\* AutoSeekWriter.WriteAt(p, off): seek when off differs from the cursor, one Write.
AutoSeekWriter_WriteAt(a, bfs, p, off, flt) ==
    LET seekerr == IF off # a.cur THEN FaultAt(flt, "seek") ELSE Nil
        seeks   == IF off # a.cur THEN <<Call("Seek", off, seekerr)>> ELSE <<>>
    IN  IF seekerr # Nil
        THEN [a |-> a, fs |-> bfs, n |-> 0, err |-> seekerr, calls |-> seeks]
        ELSE LET start == IF off # a.cur THEN off ELSE bfs.res[a.w].pos
                 cur1  == IF off # a.cur THEN off ELSE a.cur
                 werr  == FaultAt(flt, "io")
                 n     == IF werr # Nil THEN 0 ELSE Len(p)
             IN  [a |-> [a EXCEPT !.cur = cur1 + n],
                  fs |-> [bfs EXCEPT !.res[a.w].pos = start + n],
                  n |-> n, err |-> werr,
                  calls |-> seeks \o <<Call("Write", p, werr)>>]

DirReader(attrs, pos) == [type |-> "DirReader", attrs |-> attrs, pos |-> pos]

\* DirReader.Readdir(count): the next page of the list, or io.EOF.
DirReader_Readdir(d, count) ==
    IF d.pos >= Len(d.attrs) THEN [d |-> d, fis |-> <<>>, err |-> EOF]
    ELSE LET nextPos == IF d.pos + count > Len(d.attrs) THEN Len(d.attrs) ELSE d.pos + count
         IN  [d |-> [d EXCEPT !.pos = nextPos],
              fis |-> SubSeq(d.attrs, d.pos + 1, nextPos), err |-> Nil]

\* A Dir of the backend (OpenDir): adapter over resource r.
BackendDir(r) == [type |-> "Dir", r |-> r]

\* Dir.Readdir(count) of a backend Dir: it pages through DirEntries from its position.
BackendDir_Readdir(d, bfs, count, flt) ==
    LET ioerr == FaultAt(flt, "io")
        pos   == bfs.res[d.r].pos
        page  == DirReader_Readdir(DirReader(DirEntries, pos), count)
    IN  IF ioerr # Nil
        THEN [fs |-> bfs, fis |-> <<>>, err |-> ioerr, calls |-> <<Call("Readdir", count, ioerr)>>]
        ELSE [fs |-> [bfs EXCEPT !.res[d.r].pos = page.d.pos], fis |-> page.fis,
              err |-> page.err, calls |-> <<Call("Readdir", count, page.err)>>]

\* c.Close() on each adapter closeHandle closed; what Close returns (cerr) is dropped.
RECURSIVE CloseAdapters(_, _, _)
CloseAdapters(bfs, adapters, cerr) ==
    IF adapters = <<>> THEN [fs |-> bfs, calls |-> <<>>]
    ELSE LET a    == Head(adapters)
             idx  == IF a.type = "AutoSeekWriter" THEN a.w
                     ELSE IF a.type = "DirReader" THEN 0 ELSE a.r
             fs1  == IF idx = 0 THEN bfs ELSE [bfs EXCEPT !.res[idx].closes = @ + 1]
             c1   == IF idx = 0 THEN <<>> ELSE <<Call("Close", idx, cerr)>>
             rest == CloseAdapters(fs1, Tail(adapters), cerr)
         IN  [fs |-> rest.fs, calls |-> c1 \o rest.calls]

(***************************************************************************)
(* The lazy opens of READ, WRITE and READDIR (the bodies of their cases).   *)
(* th is the handle table, bfs the backend, ext the backend's capabilities. *)
(***************************************************************************)
OpenResource(bfs, kind, name, pos) == [bfs EXCEPT !.res = Append(@, Resource(kind, name, pos))]

\* Lines 111..136: the reader stored for the handle, or GetHandle, or OpenFile and Seek.
ReadLazy(th, bfs, ext, handle, f, length, offset, flt, early) ==
    IF handle \in DOMAIN th.fr THEN
        LET ra == BufferedReader_ReadAt(th.fr[handle], bfs, length, offset, flt, early)
        IN  [h |-> [th EXCEPT !.fr[handle] = ra.b], fs |-> ra.fs, n |-> ra.n,
             err |-> ra.err, data |-> ra.data, calls |-> ra.calls]
    ELSE IF ext.transfer THEN
        LET oerr == FaultAt(flt, "open")
            oc   == <<Call("GetHandle", <<f.name, offset>>, oerr)>>
            fs1  == OpenResource(bfs, "FileTransfer", f.name, offset)
            ra   == BufferedReader_ReadAt(BufferedReader(Len(fs1.res), offset), fs1,
                                          length, offset, flt, early)
        IN  IF oerr # Nil
            THEN [h |-> th, fs |-> bfs, n |-> 0, err |-> oerr, data |-> <<>>, calls |-> oc]
            ELSE [h |-> [th EXCEPT !.fr = MapPut(th.fr, handle, ra.b)], fs |-> ra.fs,
                  n |-> ra.n, err |-> ra.err, data |-> ra.data, calls |-> oc \o ra.calls]
    ELSE
        LET oerr == FaultAt(flt, "open")
            oc   == <<Call("OpenFile", <<f.name>>, oerr)>>
            fs1  == OpenResource(bfs, "File", f.name, 0)
            idx  == Len(fs1.res)
            serr == IF offset # 0 THEN FaultAt(flt, "seek") ELSE Nil
            sc   == IF offset # 0 THEN <<Call("Seek", offset, serr)>> ELSE <<>>
            fs2  == [fs1 EXCEPT !.res[idx].pos = offset]
            ra   == BufferedReader_ReadAt(BufferedReader(idx, offset), fs2,
                                          length, offset, flt, early)
        IN  IF oerr # Nil
            THEN [h |-> th, fs |-> bfs, n |-> 0, err |-> oerr, data |-> <<>>, calls |-> oc]
            ELSE IF serr # Nil
            THEN [h |-> th, fs |-> fs1, n |-> 0, err |-> serr, data |-> <<>>,
                  calls |-> oc \o sc]
            ELSE [h |-> [th EXCEPT !.fr = MapPut(th.fr, handle, ra.b)], fs |-> ra.fs,
                  n |-> ra.n, err |-> ra.err, data |-> ra.data,
                  calls |-> oc \o sc \o ra.calls]

\* Lines 167..192: the writer stored for the handle, or GetHandle, or OpenFile and Seek.
WriteLazy(th, bfs, ext, handle, f, bs, offset, flt) ==
    IF handle \in DOMAIN th.fw THEN
        LET wa == AutoSeekWriter_WriteAt(th.fw[handle], bfs, bs, offset, flt)
        IN  [h |-> [th EXCEPT !.fw[handle] = wa.a], fs |-> wa.fs, err |-> wa.err,
             calls |-> wa.calls]
    ELSE IF ext.transfer THEN
        LET oerr == FaultAt(flt, "open")
            oc   == <<Call("GetHandle", <<f.name, offset>>, oerr)>>
            fs1  == OpenResource(bfs, "FileTransfer", f.name, offset)
            wa   == AutoSeekWriter_WriteAt(AutoSeekWriter(Len(fs1.res), offset), fs1,
                                           bs, offset, flt)
        IN  IF oerr # Nil
            THEN [h |-> th, fs |-> bfs, err |-> oerr, calls |-> oc]
            ELSE [h |-> [th EXCEPT !.fw = MapPut(th.fw, handle, wa.a)], fs |-> wa.fs,
                  err |-> wa.err, calls |-> oc \o wa.calls]
    ELSE
        LET oerr == FaultAt(flt, "open")
            oc   == <<Call("OpenFile", <<f.name>>, oerr)>>
            fs1  == OpenResource(bfs, "File", f.name, 0)
            idx  == Len(fs1.res)
            serr == IF offset # 0 THEN FaultAt(flt, "seek") ELSE Nil
            sc   == IF offset # 0 THEN <<Call("Seek", offset, serr)>> ELSE <<>>
            fs2  == [fs1 EXCEPT !.res[idx].pos = offset]
            wa   == AutoSeekWriter_WriteAt(AutoSeekWriter(idx, offset), fs2, bs, offset, flt)
        IN  IF oerr # Nil
            THEN [h |-> th, fs |-> bfs, err |-> oerr, calls |-> oc]
            ELSE IF serr # Nil
            THEN [h |-> th, fs |-> fs1, err |-> serr, calls |-> oc \o sc]
            ELSE [h |-> [th EXCEPT !.fw = MapPut(th.fw, handle, wa.a)], fs |-> wa.fs,
                  err |-> wa.err, calls |-> oc \o sc \o wa.calls]

\* Lines 266..289: the directory reader stored for the handle, or ReadDir paged by a
\* DirReader, or OpenDir; then Readdir(1024).
ReaddirLazy(th, bfs, ext, handle, f, flt) ==
    IF handle \in DOMAIN th.dr THEN
        IF th.dr[handle].type = "DirReader" THEN
            LET pg == DirReader_Readdir(th.dr[handle], 1024)
            IN  [h |-> [th EXCEPT !.dr[handle] = pg.d], fs |-> bfs, fis |-> pg.fis,
                 err |-> pg.err, calls |-> <<>>]
        ELSE
            LET pg == BackendDir_Readdir(th.dr[handle], bfs, 1024, flt)
            IN  [h |-> th, fs |-> pg.fs, fis |-> pg.fis, err |-> pg.err, calls |-> pg.calls]
    ELSE IF ext.list THEN
        LET oerr == FaultAt(flt, "open")
            oc   == <<Call("ReadDir", <<f>>, oerr)>>
            pg   == DirReader_Readdir(DirReader(DirEntries, 0), 1024)
        IN  IF oerr # Nil
            THEN [h |-> th, fs |-> bfs, fis |-> <<>>, err |-> oerr, calls |-> oc]
            ELSE [h |-> [th EXCEPT !.dr = MapPut(th.dr, handle, pg.d)], fs |-> bfs,
                  fis |-> pg.fis, err |-> pg.err, calls |-> oc]
    ELSE
        LET oerr == FaultAt(flt, "open")
            oc   == <<Call("OpenDir", <<f>>, oerr)>>
            fs1  == OpenResource(bfs, "Dir", f, 0)
            dir  == BackendDir(Len(fs1.res))
            pg   == BackendDir_Readdir(dir, fs1, 1024, flt)
        IN  IF oerr # Nil
            THEN [h |-> th, fs |-> bfs, fis |-> <<>>, err |-> oerr, calls |-> oc]
            ELSE [h |-> [th EXCEPT !.dr = MapPut(th.dr, handle, dir)], fs |-> pg.fs,
                  fis |-> pg.fis, err |-> pg.err, calls |-> oc \o pg.calls]

\* The stage of a backend call, for the accounting of injected faults.
StageOf(fn) ==
    IF fn \in {"OpenFile", "GetHandle", "OpenDir", "ReadDir"} THEN "open"
    ELSE IF fn = "Seek" THEN "seek"
    ELSE IF fn \in {"Read", "Write", "Readdir"} THEN "io"
    ELSE "other"

\* The fault was returned by a call of the step.
Applied(flt, cs) == \E i \in 1..Len(cs) : cs[i].err = flt.err /\ StageOf(cs[i].fn) = flt.at

(***************************************************************************)
(* The cases of the switch.  Each action is one pass of the loop for a     *)
(* packet of that opcode, from the discard at line 47 to the check after   *)
(* the switch.                                                             *)
(***************************************************************************)
\* What a case does to the variables that neither ReadPacket nor Finish sets.
Dispatch(h2, id2, fs2, calls2, closed2, nfault) ==
    /\ h' = h2
    /\ id' = id2
    /\ fs' = fs2
    /\ calls' = calls2
    /\ closedH' = closed2
    /\ faults' = faults + nfault
    /\ nknown' = nknown + 1
    /\ UNCHANGED <<wbroken, fsExt>>

\* An injected failure is within the budget, and counted.
FaultOK(err) == err # Nil => faults < MaxFaults
FaultCount(err) == IF err # Nil THEN 1 ELSE 0

Range(s) == {s[i] : i \in 1..Len(s)}

Case_INIT(r) ==
    /\ r.op = "INIT"
    /\ ReadPacket(r, BodyLen(r))
    /\ Dispatch(h, id, fs, <<>>, closedH, 0)
    /\ Finish(Reply(initReply))

\* An OPEN that refuses only above maxFiles.
Case_OPEN_OffByOne(r) ==
    /\ r.op = "OPEN"
    /\ ReadPacket(r, BodyLen(r))
    /\ IF nfiles(h) > maxFiles
       THEN /\ Dispatch(h, r.id, fs, <<>>, closedH, 0)
            /\ Finish(Defer(errTooManyFiles))
       ELSE LET nf == newFile(h, FileOpenArgs(r.path, r.flags, r.attr))
            IN  /\ Dispatch(nf.h, r.id, fs, <<>>, closedH, 0)
                /\ Finish(Reply(writeHandle(r.id, nf.k)))

Case_OPEN(r) ==
    /\ r.op = "OPEN"
    /\ ReadPacket(r, BodyLen(r))
    /\ IF nfiles(h) >= maxFiles
       THEN /\ Dispatch(h, r.id, fs, <<>>, closedH, 0)
            /\ Finish(Defer(errTooManyFiles))
       ELSE LET nf == newFile(h, FileOpenArgs(r.path, r.flags, r.attr))
            IN  /\ Dispatch(nf.h, r.id, fs, <<>>, closedH, 0)
                /\ Finish(Reply(writeHandle(r.id, nf.k)))

Case_CLOSE(r, cerr) ==
    /\ r.op = "CLOSE"
    /\ FaultOK(cerr)
    /\ ReadPacket(r, BodyLen(r))
    /\ LET ch == closeHandle(h, r.handle)
           ca == CloseAdapters(fs, ch.closed, cerr)
       IN  /\ cerr # Nil => ca.calls # <<>>
           /\ Dispatch(ch.h, r.id, ca.fs, ca.calls,
                       IF r.handle \in Range(issued) THEN closedH \cup {r.handle} ELSE closedH,
                       FaultCount(cerr))
           /\ Finish(Reply(writeErr(r.id, Nil)))

\* A READ that reports every end-of-stream as an error, bytes or not.
Case_READ_EofAlwaysError(r, flt, early) ==
    /\ r.op = "READ"
    /\ FaultOK(flt.err)
    /\ ReadPacket(r, BodyLen(r))
    /\ LET f == getFile(h, r.handle)
           rd == ReadLazy(h, fs, fsExt, r.handle, f, r.length, r.offset, flt, early)
       IN  IF f = NilFileOpenArgs
           THEN /\ flt = NoFault
                /\ Dispatch(h, r.id, fs, <<>>, closedH, 0)
                /\ Finish(Return(errInvalidHandle))
           ELSE /\ flt # NoFault => Applied(flt, rd.calls)
                /\ Dispatch(rd.h, r.id, rd.fs, rd.calls, closedH, FaultCount(flt.err))
                /\ Finish(IF rd.err # Nil THEN Defer(rd.err)
                          ELSE Reply(writeData(r.id, rd.data)))

Case_READ(r, flt, early) ==
    /\ r.op = "READ"
    /\ FaultOK(flt.err)
    /\ ReadPacket(r, BodyLen(r))
    /\ LET f == getFile(h, r.handle)
           length == IF r.length > 64 * 1024 THEN 64 * 1024 ELSE r.length
           rd == ReadLazy(h, fs, fsExt, r.handle, f, length, r.offset, flt, early)
           \* Handle go readers that return io.EOF and bytes at the same time.
           err == IF rd.err = EOF /\ rd.n > 0 THEN Nil ELSE rd.err
       IN  IF f = NilFileOpenArgs
           THEN /\ flt = NoFault
                /\ Dispatch(h, r.id, fs, <<>>, closedH, 0)
                /\ Finish(Return(errInvalidHandle))
           ELSE /\ flt # NoFault => Applied(flt, rd.calls)
                /\ Dispatch(rd.h, r.id, rd.fs, rd.calls, closedH, FaultCount(flt.err))
                /\ Finish(IF err # Nil THEN Defer(err) ELSE Reply(writeData(r.id, rd.data)))

Case_WRITE(r, flt) ==
    /\ r.op = "WRITE"
    /\ FaultOK(flt.err)
    /\ ReadPacket(r, BodyLen(r))
    /\ LET f == getFile(h, r.handle)
           wr == WriteLazy(h, fs, fsExt, r.handle, f, r.data, r.offset, flt)
       IN  IF f = NilFileOpenArgs
           THEN /\ flt = NoFault
                /\ Dispatch(h, r.id, fs, <<>>, closedH, 0)
                /\ Finish(Return(errInvalidHandle))
           ELSE /\ flt # NoFault => Applied(flt, wr.calls)
                /\ Dispatch(wr.h, r.id, wr.fs, wr.calls, closedH, FaultCount(flt.err))
                /\ Finish(Reply(writeErr(r.id, wr.err)))

\* case ssh_FXP_LSTAT, ssh_FXP_STAT: fs.Stat(path, op == ssh_FXP_LSTAT).
Case_STAT(r, err) ==
    /\ r.op \in {"LSTAT", "STAT"}
    /\ FaultOK(err)
    /\ ReadPacket(r, BodyLen(r))
    /\ Dispatch(h, r.id, fs, <<Call("Stat", <<r.path, r.op = "LSTAT">>, err)>>, closedH,
                FaultCount(err))
    /\ Finish(Reply(writeAttr(r.id, StatAttr, err)))

Case_FSTAT(r, err) ==
    /\ r.op = "FSTAT"
    /\ FaultOK(err)
    /\ ReadPacket(r, BodyLen(r))
    /\ LET f == getFile(h, r.handle)
       IN  IF f = NilFileOpenArgs
           THEN /\ err = Nil
                /\ Dispatch(h, r.id, fs, <<>>, closedH, 0)
                /\ Finish(Return(errInvalidHandle))
           ELSE /\ Dispatch(h, r.id, fs, <<Call("Stat", <<f.name, FALSE>>, err)>>, closedH,
                            FaultCount(err))
                /\ Finish(Reply(writeAttr(r.id, StatAttr, err)))

Case_SETSTAT(r, err) ==
    /\ r.op = "SETSTAT"
    /\ FaultOK(err)
    /\ ReadPacket(r, BodyLen(r))
    /\ Dispatch(h, r.id, fs, <<Call("SetStat", <<r.path, r.attr>>, err)>>, closedH,
                FaultCount(err))
    /\ Finish(Reply(writeErr(r.id, err)))

Case_FSETSTAT(r, err) ==
    /\ r.op = "FSETSTAT"
    /\ FaultOK(err)
    /\ ReadPacket(r, BodyLen(r))
    /\ LET f == getFile(h, r.handle)
       IN  IF f = NilFileOpenArgs
           THEN /\ err = Nil
                /\ Dispatch(h, r.id, fs, <<>>, closedH, 0)
                /\ Finish(Return(errInvalidHandle))
           ELSE /\ Dispatch(h, r.id, fs, <<Call("SetStat", <<f.name, r.attr>>, err)>>,
                            closedH, FaultCount(err))
                /\ Finish(Reply(writeErr(r.id, err)))

\* An OPENDIR that opens the directory at once.
Case_OPENDIR_Eager(r) ==
    /\ r.op = "OPENDIR"
    /\ ReadPacket(r, BodyLen(r))
    /\ LET nd == newDir(h, r.path)
       IN  /\ Dispatch(nd.h, r.id, OpenResource(fs, "Dir", r.path, 0),
                       <<Call("OpenDir", <<r.path>>, Nil)>>, closedH, 0)
           /\ Finish(Reply(writeHandle(r.id, nd.k)))

Case_OPENDIR(r) ==
    /\ r.op = "OPENDIR"
    /\ ReadPacket(r, BodyLen(r))
    /\ LET nd == newDir(h, r.path)
       IN  /\ Dispatch(nd.h, r.id, fs, <<>>, closedH, 0)
           /\ Finish(Reply(writeHandle(r.id, nd.k)))

\* The NAME packet of READDIR: per entry the name, the long name and the attributes.
writeNames(rid, fis) ==
    [t |-> "NAME", id |-> rid,
     names |-> [i \in 1..Len(fis) |->
                  [name |-> fis[i].Name, longname |-> fis[i].Name, attr |-> fis[i].Attr,
                   block |-> readdir_Block(fis[i].Attr)]]]

Case_READDIR(r, flt) ==
    /\ r.op = "READDIR"
    /\ FaultOK(flt.err)
    /\ ReadPacket(r, BodyLen(r))
    /\ LET f  == getDir(h, r.handle)
           rd == ReaddirLazy(h, fs, fsExt, r.handle, f, flt)
       IN  IF f = <<>>
           THEN /\ flt = NoFault
                /\ Dispatch(h, r.id, fs, <<>>, closedH, 0)
                /\ Finish(Return(errInvalidHandle))
           ELSE /\ flt # NoFault => Applied(flt, rd.calls)
                /\ Dispatch(rd.h, r.id, rd.fs, rd.calls, closedH, FaultCount(flt.err))
                /\ Finish(IF rd.err # Nil THEN Defer(rd.err)
                          ELSE Reply(writeNames(r.id, rd.fis)))

\* A case that parses, makes one backend call and writes its error as a status.
StatusCase(r, call, err) ==
    /\ FaultOK(err)
    /\ ReadPacket(r, BodyLen(r))
    /\ Dispatch(h, r.id, fs, <<call>>, closedH, FaultCount(err))
    /\ Finish(Reply(writeErr(r.id, err)))

Case_REMOVE(r, err) ==
    /\ r.op = "REMOVE"
    /\ StatusCase(r, Call("Remove", <<r.path>>, err), err)

Case_MKDIR(r, err) ==
    /\ r.op = "MKDIR"
    /\ StatusCase(r, Call("Mkdir", <<r.path, r.attr>>, err), err)

Case_RMDIR(r, err) ==
    /\ r.op = "RMDIR"
    /\ StatusCase(r, Call("Rmdir", <<r.path>>, err), err)

Case_RENAME(r, err) ==
    /\ r.op = "RENAME"
    /\ StatusCase(r, Call("Rename", <<r.path, r.newpath, r.flags>>, err), err)

\* What the backend resolves a path to (RealPath, ReadLink).
Resolved(path) == <<"/">> \o path

Case_REALPATH(r, err) ==
    /\ r.op = "REALPATH"
    /\ FaultOK(err)
    /\ ReadPacket(r, BodyLen(r))
    /\ Dispatch(h, r.id, fs, <<Call("RealPath", <<r.path>>, err)>>, closedH, FaultCount(err))
    /\ Finish(Reply(writeNameOnly(r.id, IF err = Nil THEN Resolved(r.path) ELSE <<>>, err)))

Case_READLINK(r, err) ==
    /\ r.op = "READLINK"
    /\ FaultOK(err)
    /\ ReadPacket(r, BodyLen(r))
    /\ Dispatch(h, r.id, fs, <<Call("ReadLink", <<r.path>>, err)>>, closedH, FaultCount(err))
    /\ Finish(Reply(writeNameOnly(r.id, IF err = Nil THEN Resolved(r.path) ELSE <<>>, err)))

\* case ssh_FXP_SYMLINK: the body is not parsed; the status carries the variable id.
Case_SYMLINK(r) ==
    /\ r.op = "SYMLINK"
    /\ ReadPacket(r, BodyLen(r))
    /\ Dispatch(h, id, fs, <<>>, closedH, 0)
    /\ Finish(Reply(writeErrCode(id, ssh_FX_OP_UNSUPPORTED)))

\* An opcode no case matches: nothing is parsed or written, e is nil from Peek.
UnknownOp(r) ==
    /\ r.op = "UNKNOWN"
    /\ ReadPacket(r, BodyLen(r))
    /\ Finish(NoReply)
    /\ calls' = <<>>
    /\ UNCHANGED <<h, id, wbroken, nknown, closedH, fs, faults, fsExt>>

(***************************************************************************)
(* The passes that end the session before the switch.                      *)
(***************************************************************************)
\* What a pass that returns before the switch leaves alone.
NoDispatch ==
    /\ calls' = <<>>
    /\ UNCHANGED <<h, id, wbroken, nknown, closedH, fs, faults, fsExt>>

\* The client ends the stream at a packet boundary: io.ReadFull reads nothing and
\* readPacketHeader returns (0, 0, io.EOF), which ServeChannel returns.
ClientEOF ==
    /\ Running
    /\ e = Nil
    /\ plen' = 0
    /\ brd' = [brd EXCEPT !.off = @ + discard(plen)]
    /\ Finish(Return(EOF))
    /\ NoDispatch
    /\ req' = NoReq
    /\ UNCHANGED nreq

\* The stream ends inside a header: io.ReadFull returns io.ErrUnexpectedEOF.
PartialHeader(k) ==
    /\ Running
    /\ e = Nil
    /\ k \in 1..4
    /\ plen' = 0
    /\ brd' = [brd EXCEPT !.off = @ + discard(plen)]
    /\ Finish(Return(ErrUnexpectedEOF))
    /\ NoDispatch
    /\ req' = NoReq
    /\ UNCHANGED nreq

\* The transport fails the read of the header.
ReadError ==
    /\ Running
    /\ e = Nil
    /\ plen' = 0
    /\ brd' = [brd EXCEPT !.off = @ + discard(plen)]
    /\ Finish(Return(ErrTransport))
    /\ NoDispatch
    /\ req' = NoReq
    /\ UNCHANGED nreq

\* A header whose length field leaves fewer than 2 body bytes (plen-- ; plen < 2).
PacketTooShort(length) ==
    /\ length - 1 < 2
    /\ ReadPacket([op |-> "SHORT", length |-> length], length - 1)
    /\ Finish(Return(ErrPacketTooShort))
    /\ NoDispatch

\* Peek(plen) fails: the body is larger than the 64 KiB frame of brd (bufio.ErrBufferFull),
\* or the stream ends inside the body (io.EOF).
PeekFail(length, cut) ==
    /\ length - 1 >= 2
    /\ cut \/ length - 1 > 64 * 1024
    /\ ReadPacket([op |-> "NOBODY", length |-> length], length - 1)
    /\ Finish(Return(IF length - 1 > 64 * 1024 THEN ErrBufferFull ELSE EOF))
    /\ NoDispatch

\* The opcodes whose case parses the body and checks End().
ParsedOps == {"OPEN", "CLOSE", "READ", "WRITE", "LSTAT", "STAT", "FSTAT", "SETSTAT",
              "FSETSTAT", "OPENDIR", "READDIR", "REMOVE", "MKDIR", "RMDIR", "REALPATH",
              "RENAME", "READLINK"}

\* A body that does not parse to its end for its opcode: the case returns the parser's
\* error.  WRITE looks the handle up before End(): whandle is what the parser left
\* in handle.
MalformedBody(op, blen, whandle) ==
    /\ op \in ParsedOps
    /\ blen >= 2
    /\ ReadPacket([op |-> op, malformed |-> TRUE, blen |-> blen, handle |-> whandle], blen)
    /\ Finish(Return(IF op = "WRITE" /\ getFile(h, whandle) = NilFileOpenArgs
                     THEN errInvalidHandle ELSE ErrParse))
    /\ calls' = <<>>
    /\ nknown' = nknown + 1
    /\ UNCHANGED <<h, id, wbroken, closedH, fs, faults, fsExt>>

(***************************************************************************)
(* The sessions explored: what the client sends and what the backend       *)
(* answers.                                                                *)
(***************************************************************************)
\* The client numbers its requests.
Ids == {nreq + 1}
Paths == {<<>>, <<"a">>}
\* The handles a client names: empty, and "f<n>" / "d<n>" whether issued or not, for
\* the counter values a session can reach before its last request.
HandleInputs ==
    {<<>>} \cup {<<k>> \o FormatInt(n, 16) : k \in {"f", "d"}, n \in 1..(MaxReqs - 1)}
Offsets == {0, 2}
Lengths == {2}
WriteData == {<<"z">>}
BackendErrs == {EOF, ErrNotExist, ErrPermission, ErrOther}
\* Success, or the one failure explored for the calls other than Stat.
OneErr == {Nil, ErrOther}
Faults == {NoFault} \cup {Fault(at, ErrOther) : at \in {"open", "seek", "io"}}

PathReqs(op) == [op : {op}, id : Ids, path : {<<"a">>}]
PathAttrReqs(op) == [op : {op}, id : Ids, path : {<<"a">>}, attr : {ZeroAttr}]
HandleReqs(op) == [op : {op}, id : Ids, handle : HandleInputs]

More == nreq < MaxReqs

ReqInit == \E r \in [op : {"INIT"}, blen : {4}] : More /\ Case_INIT(r)
ReqOpen ==
    \E r \in [op : {"OPEN"}, id : Ids, path : Paths, flags : {0}, attr : {ZeroAttr}] :
        More /\ Case_OPEN(r)
ReqClose == \E r \in HandleReqs("CLOSE"), cerr \in {Nil, ErrOther} : More /\ Case_CLOSE(r, cerr)
ReqRead ==
    \E r \in [op : {"READ"}, id : Ids, handle : HandleInputs, offset : Offsets,
              length : Lengths], flt \in Faults, early \in BOOLEAN :
        More /\ Case_READ(r, flt, early)
ReqWrite ==
    \E r \in [op : {"WRITE"}, id : Ids, handle : HandleInputs, offset : Offsets,
              data : WriteData], flt \in Faults :
        More /\ Case_WRITE(r, flt)
ReqStat ==
    \E r \in PathReqs("LSTAT") \cup PathReqs("STAT"), err \in {Nil} \cup BackendErrs :
        More /\ (r.op = "LSTAT" => err \in OneErr) /\ Case_STAT(r, err)
ReqFstat ==
    \E r \in HandleReqs("FSTAT"), err \in OneErr : More /\ Case_FSTAT(r, err)
ReqSetStat ==
    \E r \in PathAttrReqs("SETSTAT"), err \in OneErr :
        More /\ Case_SETSTAT(r, err)
ReqFSetStat ==
    \E r \in [op : {"FSETSTAT"}, id : Ids, handle : HandleInputs, attr : {ZeroAttr}],
       err \in OneErr :
        More /\ Case_FSETSTAT(r, err)
ReqOpenDir == \E r \in [op : {"OPENDIR"}, id : Ids, path : Paths] : More /\ Case_OPENDIR(r)
ReqReadDir == \E r \in HandleReqs("READDIR"), flt \in Faults : More /\ Case_READDIR(r, flt)
ReqRemove ==
    \E r \in PathReqs("REMOVE"), err \in OneErr : More /\ Case_REMOVE(r, err)
ReqMkdir ==
    \E r \in PathAttrReqs("MKDIR"), err \in OneErr : More /\ Case_MKDIR(r, err)
ReqRmdir ==
    \E r \in PathReqs("RMDIR"), err \in OneErr : More /\ Case_RMDIR(r, err)
ReqRename ==
    \E r \in [op : {"RENAME"}, id : Ids, path : {<<"a">>}, newpath : {<<"b">>}, flags : {0}],
       err \in OneErr :
        More /\ Case_RENAME(r, err)
ReqRealPath ==
    \E r \in PathReqs("REALPATH"), err \in OneErr :
        More /\ Case_REALPATH(r, err)
ReqReadLink ==
    \E r \in PathReqs("READLINK"), err \in OneErr :
        More /\ Case_READLINK(r, err)
ReqSymlink == \E r \in [op : {"SYMLINK"}, id : Ids, blen : {14}] : More /\ Case_SYMLINK(r)
ReqUnknown == \E r \in [op : {"UNKNOWN"}, id : Ids, blen : {4}] : More /\ UnknownOp(r)
ReqPartialHeader == \E k \in {1, 4} : PartialHeader(k)
ReqTooShort == \E length \in {0, 2} : More /\ PacketTooShort(length)
ReqPeekFail ==
    \E length \in {9, 64 * 1024 + 2}, cut \in BOOLEAN : More /\ PeekFail(length, cut)
ReqMalformed ==
    \E op \in ParsedOps, whandle \in HandleInputs :
        More /\ (op # "WRITE" => whandle = <<>>) /\ MalformedBody(op, 3, whandle)

Next ==
    \/ SendDeferredErr
    \/ TransportBreak
    \/ ReqInit
    \/ ReqOpen
    \/ ReqClose
    \/ ReqRead
    \/ ReqWrite
    \/ ReqStat
    \/ ReqFstat
    \/ ReqSetStat
    \/ ReqFSetStat
    \/ ReqOpenDir
    \/ ReqReadDir
    \/ ReqRemove
    \/ ReqMkdir
    \/ ReqRmdir
    \/ ReqRename
    \/ ReqRealPath
    \/ ReqReadLink
    \/ ReqSymlink
    \/ ReqUnknown
    \/ ClientEOF
    \/ ReqPartialHeader
    \/ ReadError
    \/ ReqTooShort
    \/ ReqPeekFail
    \/ ReqMalformed

Spec == Init /\ [][Next]_vars

(***************************************************************************)
(* Sessions that fill the handle table: OPEN after OPEN up to maxFiles,    *)
(* and OPEN, OPENDIR and CLOSE around the limit.                           *)
(***************************************************************************)
FillMore == nreq < maxFiles + FillExtra
NearLimit == nfiles(h) + FillSlack >= maxFiles

FillOpen ==
    \E r \in [op : {"OPEN"}, id : Ids, path : {<<"a">>}, flags : {0}, attr : {ZeroAttr}] :
        FillMore /\ Case_OPEN(r)
FillOpenDir ==
    \E r \in [op : {"OPENDIR"}, id : Ids, path : {<<"a">>}] :
        FillMore /\ NearLimit /\ Case_OPENDIR(r)
LastIssued == IF issued = <<>> THEN <<>> ELSE issued[Len(issued)]
\* CLOSE of the first handle issued or of the last one.
FillClose ==
    \E r \in [op : {"CLOSE"}, id : Ids, handle : {<<"f", "1">>, LastIssued}] :
        FillMore /\ NearLimit /\ Case_CLOSE(r, Nil)

FillNext ==
    \/ SendDeferredErr
    \/ FillOpen
    \/ FillOpenDir
    \/ FillClose
    \/ ClientEOF

SpecFill == Init /\ [][FillNext]_vars

(***************************************************************************)
(* Sessions that read one file: an OPEN, then READs at every offset up to  *)
(* past the end of the file, short and long, on either kind of backend.    *)
(***************************************************************************)
ReadOffsets == 0..(Len(FileData) + 1)
ReadLengths == {1, 2, 10}
ReadMore == nreq < MaxReads

RdOpen ==
    \E r \in [op : {"OPEN"}, id : Ids, path : {<<"a">>}, flags : {0}, attr : {ZeroAttr}] :
        ReadMore /\ nreq = 0 /\ Case_OPEN(r)
RdRead ==
    \E r \in [op : {"READ"}, id : Ids, handle : {<<"f", "1">>}, offset : ReadOffsets,
              length : ReadLengths], flt \in Faults, early \in BOOLEAN :
        ReadMore /\ Case_READ(r, flt, early)

ReadNext ==
    \/ SendDeferredErr
    \/ RdOpen
    \/ RdRead

SpecRead == Init /\ [][ReadNext]_vars

(***************************************************************************)
(* SpecAttr: attributes written by writeAttr and read back by parseAttr.   *)
(***************************************************************************)
\* The file modes tried: a regular file, a directory, a symbolic link (os.ModeSymlink,
\* bit 27) and a setuid file (os.ModeSetuid, bit 23).
ModeInputs == {{8, 5, 2}, {MODE_DIR, 8, 7, 6}, {27, 8}, {23, 8, 6}}

\* The extended sequences tried: none, one pair, two pairs, a key without its value,
\* and 256 pairs, one more than the 0xFF pairs parseAttr accepts.
ExtInputs ==
    { <<>>, <<"k", "v">>, <<"k", "v", "l", "w">>, <<"k">>,
      [i \in 1..(2 * 256) |-> "k"] }

\* The access times tried: time.Unix(5, 0), time.Unix(-1, 0), the zero time.Time, as
\* Attr.FillFrom leaves ATime, and time.Unix(4294967296 + 5, 0).
TimeInputs ==
    { <<Int64(5), 0>>, <<Int64(-1), 0>>, ZeroTime, << <<0, 1, 0, 5>>, 0 >> }

\* The Attr values tried: every set of flag bits, with each field set to a value that
\* is not the zero value; the modification time is time.Unix(7, n).
AttrInputs ==
    { Attr(f, 3, 1, 2, m, at, <<Int64(7), n>>, x) :
        at \in TimeInputs,
        f \in SUBSET {ssh_FILEXFER_ATTR_SIZE, ssh_FILEXFER_ATTR_UIDGID,
                      ssh_FILEXFER_ATTR_PERMISSIONS, ssh_FILEXFER_ATTR_ACMODTIME,
                      ssh_FILEXFER_ATTR_EXTENDED},
        m \in ModeInputs, n \in {0, 1}, x \in ExtInputs }

AttrInit ==
    /\ Init
    /\ fsExt = [transfer |-> FALSE, list |-> FALSE]

\* An Attr is handed to writeAttr.
CodecTake ==
    /\ codec.pc = "none"
    /\ \E a \in AttrInputs : codec' = [pc |-> "taken", a |-> a]
    /\ UNCHANGED <<onChannel, srv>>

\* writeAttr puts the attribute block on the wire.
CodecWrite ==
    /\ codec.pc = "taken"
    /\ codec' = [pc |-> "written", a |-> codec.a,
                 block |-> writeAttr(0, codec.a, Nil).block]
    /\ UNCHANGED <<onChannel, srv>>

\* parseAttr reads the block into a zero Attr.
CodecParse ==
    /\ codec.pc = "written"
    /\ codec' = [pc |-> "parsed", a |-> codec.a, block |-> codec.block,
                 back |-> parseAttr(codec.block, 1)]
    /\ UNCHANGED <<onChannel, srv>>

AttrNext == CodecTake \/ CodecWrite \/ CodecParse

SpecAttr == AttrInit /\ [][AttrNext]_vars

(***************************************************************************)
(* SpecServer: RunServer, BlockTillReady, Close and one connection.        *)
(***************************************************************************)
\* A Go channel: a send needs room in the buffer (capacity one), a receive takes the
\* oldest value or, from a closed and empty channel, the zero value.
CanRecv(ch) == ch.buf # <<>> \/ ch.closed

\* RunServer is called: runServer is about to listen.
RunServer ==
    /\ srv.run.pc = "new"
    /\ srv' = [srv EXCEPT !.run.pc = "listen"]
    /\ UNCHANGED <<onChannel, codec>>

\* runServer, one statement at a time: net.Listen succeeds or fails (and then yields a
\* nil listener), the error is sent on readyChan, readyChan is closed, the listener is
\* sent on connChan, connChan is closed, a listen error is returned, and the accept
\* loop takes a connection or returns the error of a closed listener.
runServer ==
    /\ \/ /\ srv.run.pc = "listen"
          /\ \E err \in {Nil, ErrOther} :
                srv' = [srv EXCEPT !.run.pc = "sendReady", !.run.e = err,
                                   !.listener = IF err = Nil THEN "open" ELSE "nil"]
       \/ /\ srv.run.pc = "sendReady"
          /\ srv.readyChan.buf = <<>>
          /\ srv' = [srv EXCEPT !.run.pc = "closeReady", !.readyChan.buf = <<srv.run.e>>]
       \/ /\ srv.run.pc = "closeReady"
          /\ srv' = [srv EXCEPT !.run.pc = "sendConn", !.readyChan.closed = TRUE]
       \/ /\ srv.run.pc = "sendConn"
          /\ srv.connChan.buf = <<>>
          /\ srv' = [srv EXCEPT !.run.pc = "closeConn",
                                !.connChan.buf = <<IF srv.listener = "nil" THEN "nil" ELSE "l">>]
       \/ /\ srv.run.pc = "closeConn"
          /\ srv' = [srv EXCEPT !.run.pc = "check", !.connChan.closed = TRUE]
       \/ /\ srv.run.pc = "check"
          /\ srv' = IF srv.run.e # Nil
                    THEN [srv EXCEPT !.run.pc = "returned", !.run.ret = srv.run.e]
                    ELSE [srv EXCEPT !.run.pc = "accept"]
       \/ /\ srv.run.pc = "accept"
          /\ srv.listener = "closed"
          /\ srv' = [srv EXCEPT !.run.pc = "returned", !.run.ret = ErrOther]
       \/ /\ srv.run.pc = "accept"
          /\ srv.listener = "open"
          /\ srv.conn = "none"
          /\ srv' = [srv EXCEPT !.conn = "handshake"]
    /\ UNCHANGED <<onChannel, codec>>

\* BlockTillReady: one receive from readyChan, whose value is returned.
BlockTillReady(c) ==
    /\ Len(srv.btr[c]) < MaxCalls
    /\ CanRecv(srv.readyChan)
    /\ srv' = [srv EXCEPT !.btr[c] = Append(@, IF srv.readyChan.buf # <<>>
                                               THEN Head(srv.readyChan.buf) ELSE Nil),
                          !.readyChan.buf = IF @ = <<>> THEN @ ELSE Tail(@)]
    /\ UNCHANGED <<onChannel, codec>>

\* Close, one statement at a time: the call, a pass of the range over connChan (a value
\* received or the loop left), ch.Close() on the value received (a nil listener makes
\* the call panic), s.driver.Close() and the return of nil.
Close(c) ==
    LET me == srv.close[c]
    IN  /\ \/ /\ me.pc = "idle"
              /\ me.n < MaxCalls
              /\ srv' = [srv EXCEPT !.close[c].pc = "range"]
           \/ /\ me.pc = "range"
              /\ srv.connChan.buf # <<>>
              /\ srv' = [srv EXCEPT !.close[c].pc = Head(srv.connChan.buf),
                                    !.connChan.buf = Tail(@)]
           \/ /\ me.pc = "range"
              /\ srv.connChan.buf = <<>>
              /\ srv.connChan.closed
              /\ srv' = [srv EXCEPT !.close[c].pc = "driver"]
           \/ /\ me.pc = "l"
              /\ srv' = [srv EXCEPT !.close[c].pc = "range", !.listener = "closed",
                                    !.lisCloses = @ + 1]
           \/ /\ me.pc = "nil"
              /\ srv' = [srv EXCEPT !.close[c].pc = "panicked"]
           \/ /\ me.pc = "driver"
              /\ srv' = [srv EXCEPT !.close[c] = [pc |-> "idle", n |-> me.n + 1],
                                    !.driverCloses = @ + 1]
        /\ UNCHANGED <<onChannel, codec>>

\* doHandleConn, called by handleConn: the handshake succeeds or fails; then one pass of
\* the loop over the new channels: a channel that is no session is rejected, a session
\* channel is accepted and its requests get a goroutine, or Accept fails and the
\* connection ends; or the client has disconnected, the loop over the new channels ends,
\* doHandleConn returns nil and the deferred sc.Close() and conn.Close() close the
\* connection.  The model follows the first session channel of the connection.
doHandleConn ==
    /\ \/ /\ srv.conn = "handshake"
          /\ \E ok \in BOOLEAN : srv' = [srv EXCEPT !.conn = IF ok THEN "open" ELSE "closed"]
       \/ /\ srv.conn = "open"
          /\ srv.rejects < MaxChanReqs
          /\ srv' = [srv EXCEPT !.rejects = @ + 1]
       \/ /\ srv.conn = "open"
          /\ ~srv.session
          /\ \E ok \in BOOLEAN :
                srv' = IF ok THEN [srv EXCEPT !.session = TRUE]
                       ELSE [srv EXCEPT !.conn = "closed"]
       \/ /\ srv.conn = "open"
          /\ srv' = [srv EXCEPT !.conn = "closed"]
    /\ UNCHANGED <<onChannel, codec>>

\* The goroutine over the requests of the session channel, in two steps.  It takes a
\* request, sftp telling whether IsSftpRequest accepts it, and starts a goroutine for a
\* request that is one; then it answers the request with Reply(ok, nil), while the
\* goroutine it started runs.  Requests that arrived before the connection was closed
\* are still taken from the channel, and the outcome of Reply is ignored.
requestLoop(sftp) ==
    /\ srv.session
    /\ \/ /\ srv.chanReq = <<>>
          /\ Len(srv.replies) < MaxChanReqs
          /\ srv' = [srv EXCEPT !.chanReq = <<sftp>>,
                                !.tasks = IF sftp THEN Append(@, "getfs") ELSE @]
       \/ /\ srv.chanReq = <<sftp>>
          /\ srv' = [srv EXCEPT !.chanReq = <<>>, !.replies = Append(@, sftp)]
    /\ UNCHANGED <<onChannel, codec>>

\* The goroutine of one sftp request: GetFileSystem fails and the error is logged, or it
\* succeeds and ServeChannel runs on the channel until it returns.
serveTask(t) ==
    /\ \/ /\ srv.tasks[t] = "getfs"
          /\ \E ok \in BOOLEAN :
                srv' = [srv EXCEPT !.tasks[t] = IF ok THEN "ServeChannel" ELSE "failed"]
       \/ /\ srv.tasks[t] = "ServeChannel"
          /\ srv' = [srv EXCEPT !.tasks[t] = "returned"]
    /\ UNCHANGED <<onChannel, codec>>

ServerNext ==
    \/ RunServer
    \/ runServer
    \/ \E c \in Callers : BlockTillReady(c)
    \/ \E c \in Callers : Close(c)
    \/ doHandleConn
    \/ \E sftp \in BOOLEAN : requestLoop(sftp)
    \/ \E t \in 1..Len(srv.tasks) : serveTask(t)

SpecServer == AttrInit /\ [][ServerNext]_vars

(***************************************************************************)
(* Properties.                                                             *)
(***************************************************************************)
\* The last pass of the loop read a well-formed request of one of the given opcodes.
LastReq(ops) == req.op \in ops /\ "malformed" \notin DOMAIN req

\* The opcodes whose request names a handle other than CLOSE.
FileHandleOps == {"READ", "WRITE", "FSTAT", "FSETSTAT"}
HandleOps == FileHandleOps \cup {"READDIR"}

\* C1: every response other than VERSION carries the id of the request it answers
\* (the request read last, also for SYMLINK and for the status of a deferred error).
C1_ResponseIdEqualsRequestId ==
    \A i \in 1..Len(sent) :
        sent[i].t # "VERSION" => "id" \in DOMAIN req /\ sent[i].id = req.id

\* The response types a request of an opcode can be answered with.
ResponseKinds(op) ==
    CASE op = "INIT" -> {"VERSION"}
      [] op \in {"OPEN", "OPENDIR"} -> {"HANDLE", "STATUS"}
      [] op = "READ" -> {"DATA", "STATUS"}
      [] op \in {"LSTAT", "STAT", "FSTAT"} -> {"ATTRS", "STATUS"}
      [] op \in {"READDIR", "REALPATH", "READLINK"} -> {"NAME", "STATUS"}
      [] op \in ParsedOps \cup {"SYMLINK"} -> {"STATUS"}
      [] OTHER -> {}

\* C2: while the session goes on, every request with a known opcode has been answered
\* by exactly one response, or its one response is the pending status that is written
\* before another header is read; a step writes at most one response, of a type that
\* answers the request read last; a request with an unknown opcode is not answered
\* and leaves the loop running.
C2_OneResponsePerKnownRequest ==
    /\ Running => nresp + (IF e # Nil THEN 1 ELSE 0) = nknown
    /\ Len(sent) <= 1
    /\ \A i \in 1..Len(sent) : sent[i].t \in ResponseKinds(req.op)
    /\ req.op = "UNKNOWN" => sent = <<>> /\ Running /\ e = Nil /\ nresp = nknown

\* Two requests answered, a third with an unknown opcode read and not answered.
C2_Witness ==
    /\ Running /\ req.op = "UNKNOWN"
    /\ nreq = 3 /\ nknown = 2 /\ nresp = 2

\* strconv.ParseInt(s, base) of a string of digits: the value FormatInt printed.
RECURSIVE ParseInt(_, _)
ParseInt(s, base) ==
    IF s = <<>> THEN 0
    ELSE ParseInt(SubSeq(s, 1, Len(s) - 1), base) * base
         + ((CHOOSE i \in 1..Len(HexDigits) : HexDigits[i] = s[Len(s)]) - 1)

\* The counter part of a handle: what follows its "f" or "d".
HandleCounter(k) == ParseInt(Tail(k), 16)

\* C3: the handles issued are pairwise distinct, their counter parts strictly increase
\* in issue order whatever their kind, and none exceeds the counter of the table.
C3_HandlesDistinctAndIncreasing ==
    /\ \A i, j \in 1..Len(issued) :
           i < j => issued[i] # issued[j] /\ HandleCounter(issued[i]) < HandleCounter(issued[j])
    /\ \A i \in 1..Len(issued) : HandleCounter(issued[i]) <= h.c

\* A file handle was issued and closed, and a directory handle issued after it.
C3_Witness ==
    /\ Len(issued) = 2
    /\ issued[1] \in closedH
    /\ issued[1][1] = "f" /\ issued[2][1] = "d"

\* C4: a READ, WRITE, FSTAT, FSETSTAT or READDIR that names a handle closed before
\* makes ServeChannel return the invalid-handle error with the channel closed, and
\* neither a backend call nor a response is made for it.
C4_ClosedHandleIsInvalid ==
    (LastReq(HandleOps) /\ req.handle \in closedH) =>
        /\ ret = [done |-> TRUE, err |-> errInvalidHandle]
        /\ chanCloses = 1
        /\ calls = <<>>
        /\ sent = <<>>

\* A READ of a file handle after its CLOSE ended the session.
C4_Witness ==
    /\ LastReq({"READ"}) /\ req.handle \in closedH
    /\ ret.done /\ ret.err = errInvalidHandle

\* C5: the table never holds more than maxFiles file handles; an OPEN read while it
\* holds maxFiles leaves the table (its counter included) as it was, writes no HANDLE
\* and leaves the error pending, which the next pass writes as a failure status
\* carrying the id of the OPEN.
C5_FileHandleLimit ==
    /\ [](nfiles(h) <= maxFiles)
    /\ [][(nreq' = nreq + 1 /\ req'.op = "OPEN" /\ nfiles(h) = maxFiles) =>
              /\ h' = h
              /\ issued' = issued
              /\ sent' = <<>>
              /\ e' = errTooManyFiles]_vars
    /\ [][(e = errTooManyFiles /\ e' = Nil) =>
              sent' = <<writeErrCode(req.id, ssh_FX_FAILURE)>>]_vars

\* The OPEN read with maxFiles file handles live has been answered with its status.
C5_Witness ==
    /\ LastReq({"OPEN"})
    /\ nfiles(h) = maxFiles
    /\ sent = <<writeErrCode(req.id, ssh_FX_FAILURE)>>

\* C6: a handle that was issued and not closed is not rejected as invalid by a request
\* of its kind (READ, WRITE, FSTAT, FSETSTAT for a file handle, READDIR for a
\* directory handle), whatever path it was opened with.
C6_IssuedHandleStaysValid ==
    (/\ LastReq(HandleOps)
     /\ req.handle \in Range(issued) \ closedH
     /\ req.handle[1] = (IF req.op = "READDIR" THEN "d" ELSE "f")) =>
        ~(ret.done /\ ret.err = errInvalidHandle)

\* C7: once ServeChannel has returned, the channel is closed and every backend
\* resource opened during the session has been closed.
C7_ReturnReleasesEverything ==
    ret.done =>
        /\ chanCloses = 1
        /\ \A i \in 1..Len(fs.res) : fs.res[i].closes >= 1

\* The backend resource behind an adapter of the table (0: a DirReader, which pages
\* through a list held in memory and has none).
AdapterResource(a) ==
    IF a.type = "AutoSeekWriter" THEN a.w ELSE IF a.type = "DirReader" THEN 0 ELSE a.r

\* The backend resources behind the adapters a table stores for handle k.
StoredResources(th, k) ==
    {AdapterResource(m[k]) : m \in {m \in {th.fw, th.fr, th.dr} : k \in DOMAIN m}} \ {0}

\* Every key of a table.
HandleKeys(th) ==
    DOMAIN th.f \cup DOMAIN th.d \cup DOMAIN th.fw \cup DOMAIN th.fr \cup DOMAIN th.dr

\* C8: a pass that reads a CLOSE leaves no entry keyed by the handle, calls Close once
\* on the resource of each adapter stored for it and on nothing else, and writes
\* STATUS OK with the id of the request, whatever Close returned and whether or not
\* the handle was live.
C8_CloseReleasesHandle ==
    [][(nreq' = nreq + 1 /\ req'.op = "CLOSE" /\ "malformed" \notin DOMAIN req') =>
           LET k == req'.handle
               stored == StoredResources(h, k)
           IN  /\ k \notin HandleKeys(h')
               /\ HandleKeys(h') = HandleKeys(h) \ {k}
               /\ Len(fs'.res) = Len(fs.res)
               /\ \A i \in 1..Len(fs.res) :
                      fs'.res[i].closes = fs.res[i].closes + (IF i \in stored THEN 1 ELSE 0)
               /\ Len(calls') = Cardinality(stored)
               /\ \A i \in 1..Len(calls') : calls'[i].fn = "Close" /\ calls'[i].arg \in stored
               /\ IF wbroken THEN ret'.done /\ ret'.err = ErrTransport
                  ELSE ~ret'.done /\ sent' = <<writeErrCode(req'.id, ssh_FX_OK)>>]_vars

\* A CLOSE whose one adapter failed to close was answered with STATUS OK.
C8_Witness ==
    /\ LastReq({"CLOSE"})
    /\ Len(calls) = 1 /\ calls[1].fn = "Close" /\ calls[1].err = ErrOther
    /\ fs.res[calls[1].arg].closes = 1
    /\ sent = <<writeErrCode(req.id, ssh_FX_OK)>>

\* The backend calls that open a file or a directory.
OpenFns == {"OpenFile", "GetHandle", "OpenDir", "ReadDir"}
OpenCalls(cs) == {i \in 1..Len(cs) : cs[i].fn \in OpenFns}

\* The map of a table that holds the adapter a request of the opcode uses.
AdapterMap(th, op) ==
    IF op = "READ" THEN th.fr ELSE IF op = "WRITE" THEN th.fw ELSE th.dr

\* C9: a pass that reads an OPEN or an OPENDIR calls nothing of the backend, and an
\* OPEN below the limit of file handles fails only if its HANDLE cannot be written;
\* a backend open is made only by a READ, WRITE or READDIR, once, for the path stored
\* under the handle of the request and only if no adapter of that direction is stored
\* for it; with an adapter stored, the request opens nothing and leaves the adapter
\* on the same resource.
C9_LazyOpen ==
    [][(nreq' = nreq + 1 /\ "malformed" \notin DOMAIN req') =>
           /\ req'.op \in {"OPEN", "OPENDIR"} => calls' = <<>> /\ fs' = fs
           /\ (req'.op = "OPEN" /\ nfiles(h) < maxFiles) =>
                  /\ e' = Nil
                  /\ IF wbroken THEN ret'.done /\ ret'.err = ErrTransport
                     ELSE ~ret'.done /\ sent'[1].t = "HANDLE"
           /\ OpenCalls(calls') # {} =>
                  /\ req'.op \in {"READ", "WRITE", "READDIR"}
                  /\ OpenCalls(calls') = {1}
                  /\ req'.handle \notin DOMAIN AdapterMap(h, req'.op)
                  /\ IF req'.op = "READDIR"
                     THEN /\ calls'[1].fn \in {"ReadDir", "OpenDir"}
                          /\ calls'[1].arg[1] = h.d[req'.handle]
                     ELSE /\ calls'[1].fn \in {"OpenFile", "GetHandle"}
                          /\ calls'[1].arg[1] = h.f[req'.handle].name
           /\ (req'.op \in {"READ", "WRITE", "READDIR"}
               /\ req'.handle \in DOMAIN AdapterMap(h, req'.op)) =>
                  /\ OpenCalls(calls') = {}
                  /\ Len(fs'.res) = Len(fs.res)
                  /\ req'.handle \in DOMAIN AdapterMap(h', req'.op)
                  /\ AdapterResource(AdapterMap(h', req'.op)[req'.handle])
                         = AdapterResource(AdapterMap(h, req'.op)[req'.handle])]_vars

\* A second READ of a handle used the reader the first READ opened.
C9_Witness ==
    /\ LastReq({"READ"})
    /\ nreq = 3
    /\ req.handle \in DOMAIN h.fr
    /\ calls # <<>> /\ OpenCalls(calls) = {}
    /\ Len(fs.res) = 1

\* C10: the pass that finds the stream ended at a packet boundary makes ServeChannel
\* return no error value, the channel closed.
C10_CleanEofReturnsNoError ==
    [][ClientEOF => (ret'.done /\ ret'.err = Nil /\ chanCloses' = 1)]_vars

\* The opcodes whose case calls the backend or an adapter and reports its error.
ErrOps == {"STAT", "LSTAT", "FSTAT", "SETSTAT", "FSETSTAT", "READ", "WRITE", "READDIR",
           "REMOVE", "MKDIR", "RMDIR", "RENAME", "REALPATH", "READLINK"}

\* The error the last backend call of the last pass returned (nil without a call).
LastCallErr == IF calls = <<>> THEN Nil ELSE calls[Len(calls)].err

\* C11: when the backend or an adapter failed the request read last, the error is
\* pending for the top of the loop, or it has been written as the one STATUS of that
\* request with its id and the loop is ready for the next header; ServeChannel has
\* returned only if the channel refused that write.  (End-of-stream on READ may
\* instead come with bytes, which are then the DATA response of the request.)  An
\* error is pending only while the loop runs, for the id of the request read last,
\* and the STATUS written for it leaves the loop running.
C11_BackendErrorIsNotFatal ==
    /\ (LastReq(ErrOps) /\ LastCallErr # Nil) =>
           \/ Running /\ e = LastCallErr /\ sent = <<>>
           \/ Running /\ e = Nil /\ sent = <<writeErr(req.id, LastCallErr)>>
           \/ /\ Running /\ e = Nil /\ req.op = "READ" /\ LastCallErr = EOF
              /\ Len(sent) = 1 /\ sent[1].t = "DATA" /\ sent[1].id = req.id
              /\ sent[1].data # <<>>
           \/ wbroken /\ ret = [done |-> TRUE, err |-> ErrTransport] /\ sent = <<>>
    /\ e # Nil =>
           Running /\ sent = <<>> /\ LastReq({"OPEN", "READ", "READDIR"}) /\ id = req.id
    /\ (LastReq({"OPEN", "READ", "READDIR"}) /\ sent # <<>> /\ sent[1].t = "STATUS") =>
           Running /\ e = Nil /\ Len(sent) = 1 /\ sent[1].id = req.id

\* A request was served with success after an earlier request of the session failed.
C11_Witness ==
    /\ LastReq({"STAT"}) /\ nreq = 3
    /\ faults = 1 /\ ~wbroken
    /\ LastCallErr = Nil
    /\ Running /\ e = Nil /\ nresp = 3
    /\ sent = <<writeAttr(req.id, StatAttr, Nil)>>

\* The bytes of the file from an offset, at most length of them.
FileBytes(offset, length) ==
    SubSeq(FileData, offset + 1, Min(offset + length, Len(FileData)))

\* The last pass read a READ that names a handle the table holds.
LastReadValid == LastReq({"READ"}) /\ req.handle \in DOMAIN h.f

\* C12: a READ of a valid handle whose reader said end-of-stream is answered with a
\* DATA response of exactly the bytes that came with it if there were any, and with
\* STATUS EOF (pending, then written) if there were none.
C12_EofWithDataIsData ==
    (LastReadValid /\ LastCallErr = EOF) =>
        IF FileBytes(req.offset, req.length) # <<>>
        THEN e = Nil /\ sent = <<writeData(req.id, FileBytes(req.offset, req.length))>>
        ELSE \/ e = EOF /\ sent = <<>>
             \/ e = Nil /\ sent = <<writeErrCode(req.id, ssh_FX_EOF)>>

\* READ(offset 3, length 10) of the 3-byte file, on a reader that stood at 3 after the
\* bytes of the file had been read, was answered with STATUS EOF.
C12_Witness ==
    /\ LastReadValid /\ req.offset = Len(FileData) /\ req.length = 10
    /\ Len(calls) = 1 /\ calls[1] = Call("Read", 10, EOF)
    /\ sent = <<writeErrCode(req.id, ssh_FX_EOF)>>

\* C16: every reader of the table has its cursor at the position of its stream; a READ
\* that succeeds returns the bytes of the file at its offset, so READs at increasing
\* offsets return what one sequential read returns; and a READ served by a stored
\* reader seeks exactly when its offset differs from the cursor of the reader.
C16_ReadsAreSequentialRead ==
    /\ [](\A k \in DOMAIN h.fr : h.fr[k].cur = fs.res[h.fr[k].r].pos)
    /\ []((LastReadValid /\ Len(sent) = 1 /\ sent[1].t = "DATA") =>
              sent[1].data = FileBytes(req.offset, req.length))
    /\ [][(nreq' = nreq + 1 /\ req'.op = "READ" /\ req'.handle \in DOMAIN h.fr) =>
              ((\E i \in 1..Len(calls') : calls'[i].fn = "Seek")
                   <=> req'.offset # h.fr[req'.handle].cur)]_vars

\* A READ that starts where the previous one ended was served without a seek and
\* returned the next bytes of the file.
C16_Witness ==
    /\ LastReadValid /\ req.offset = 1 /\ req.length = 2
    /\ calls = <<Call("Read", 2, Nil)>>
    /\ sent = <<writeData(req.id, <<"b", "c">>)>>
    /\ h.fr[req.handle].cur = 3

\* The status code the protocol assigns to each class of error.
StatusCodeOf(err) ==
    CASE err = Nil -> 0
      [] err = EOF -> 1
      [] err = ErrNotExist -> 2
      [] err = ErrPermission -> 3
      [] OTHER -> 4

\* The outcome the status of the request read last reports: the error of its last
\* backend call, except for CLOSE, which reports success whatever Close returned.
Outcome == IF req.op = "CLOSE" THEN Nil ELSE LastCallErr

\* C13: a STATUS written by the case of a request carries the code of the class of the
\* outcome it reports, whatever the opcode; the STATUS written for a pending error
\* carries the code of the class of that error; a SYMLINK makes no backend call and
\* its response is a STATUS with code 8.
C13_StatusCodeByErrorClass ==
    /\ [](\A i \in 1..Len(sent) :
              (sent[i].t = "STATUS" /\ req.op \notin {"OPEN", "READ", "READDIR"}) =>
                  sent[i].code = (IF req.op = "SYMLINK" THEN 8 ELSE StatusCodeOf(Outcome)))
    /\ [](req.op = "SYMLINK" =>
              /\ calls = <<>>
              /\ \/ Len(sent) = 1 /\ sent[1].t = "STATUS"
                 \/ wbroken /\ ret.done /\ sent = <<>>)
    /\ [][(e # Nil /\ sent' # <<>>) =>
              sent' = <<[t |-> "STATUS", id |-> id, code |-> StatusCodeOf(e)]>>]_vars

\* A STAT the backend refused for lack of permission was answered with code 3.
C13_Witness ==
    /\ LastReq({"STAT"}) /\ LastCallErr = ErrPermission
    /\ sent = <<[t |-> "STATUS", id |-> req.id, code |-> 3]>>

\* The attribute groups in the order of the wire, each with its bit of the flags word.
AttrGroups ==
    << [g |-> "size", bit |-> ssh_FILEXFER_ATTR_SIZE],
       [g |-> "uidgid", bit |-> ssh_FILEXFER_ATTR_UIDGID],
       [g |-> "permissions", bit |-> ssh_FILEXFER_ATTR_PERMISSIONS],
       [g |-> "acmodtime", bit |-> ssh_FILEXFER_ATTR_ACMODTIME],
       [g |-> "extended", bit |-> ssh_FILEXFER_ATTR_EXTENDED] >>

\* An attribute block starts with its flags word, holds the fields of a group exactly
\* when the bit of the group is set in that word, and holds the groups in wire order.
FieldGroupsFollowFlags(block) ==
    /\ block # <<>>
    /\ block[1].g = "flags"
    /\ \A k \in 1..Len(AttrGroups) :
          HasFlag(block[1].v, AttrGroups[k].bit)
              <=> \E i \in 2..Len(block) : block[i].g = AttrGroups[k].g
    /\ \A i, j \in 2..Len(block) :
          i < j => \E k, l \in 1..Len(AttrGroups) :
                      /\ k <= l
                      /\ block[i].g = AttrGroups[k].g
                      /\ block[j].g = AttrGroups[l].g

\* C14: in every ATTRS response and in every entry of the NAME response of a READDIR,
\* each attribute group (size, uid/gid, permissions, atime/mtime, extended) is on the
\* wire if and only if its bit is set in the flags word written for that entry, and
\* the groups come in that order.
C14_FieldsPresentIffFlagged ==
    \A n \in 1..Len(sent) :
        /\ sent[n].t = "ATTRS" => FieldGroupsFollowFlags(sent[n].block)
        /\ sent[n].t = "NAME" /\ LastReq({"READDIR"}) =>
              \A i \in 1..Len(sent[n].names) :
                  FieldGroupsFollowFlags(sent[n].names[i].block)

\* Field by field, the declared fields of `b` equal those of `a` and the fields `a` does
\* not declare are zero in `b`.
SameDeclared(a, b) ==
    LET has(bit) == HasFlag(a.Flags, bit)
    IN  /\ b.Flags = a.Flags
        /\ b.Size = (IF has(ssh_FILEXFER_ATTR_SIZE) THEN a.Size ELSE ZeroAttr.Size)
        /\ b.Uid = (IF has(ssh_FILEXFER_ATTR_UIDGID) THEN a.Uid ELSE ZeroAttr.Uid)
        /\ b.Gid = (IF has(ssh_FILEXFER_ATTR_UIDGID) THEN a.Gid ELSE ZeroAttr.Gid)
        /\ b.Mode = (IF has(ssh_FILEXFER_ATTR_PERMISSIONS) THEN a.Mode ELSE ZeroAttr.Mode)
        /\ b.ATime = (IF has(ssh_FILEXFER_ATTR_ACMODTIME) THEN a.ATime ELSE ZeroAttr.ATime)
        /\ b.MTime = (IF has(ssh_FILEXFER_ATTR_ACMODTIME) THEN a.MTime ELSE ZeroAttr.MTime)
        /\ b.Extended =
              (IF has(ssh_FILEXFER_ATTR_EXTENDED) THEN a.Extended ELSE ZeroAttr.Extended)

\* C15 as stated: for any Attr with any subset of the flag bits set, writing its
\* attribute block and parsing the block yields an Attr whose declared fields equal the
\* original's and whose undeclared fields are zero.
C15_RoundTripAnyAttr ==
    codec.pc = "parsed" => codec.back.ok /\ SameDeclared(codec.a, codec.back.a)

\* Every declared field of `a` is one the wire can carry: a mode of permission bits and
\* at most the directory bit, times of whole seconds from 0 to 2^32 - 1, extended
\* strings in pairs, at most 255 of them.
WireCarries(a) ==
    /\ HasFlag(a.Flags, ssh_FILEXFER_ATTR_PERMISSIONS) => a.Mode \subseteq (0..8) \cup {MODE_DIR}
    /\ HasFlag(a.Flags, ssh_FILEXFER_ATTR_ACMODTIME) =>
          \A t \in {a.ATime, a.MTime} : t[2] = 0 /\ t[1][1] = 0 /\ t[1][2] = 0
    /\ HasFlag(a.Flags, ssh_FILEXFER_ATTR_EXTENDED) =>
          Len(a.Extended) % 2 = 0 /\ Len(a.Extended) \div 2 <= 255

\* C15 amended: the round trip of an Attr whose declared fields the wire can carry
\* yields an Attr whose declared fields equal the original's, the mode and the extended
\* sequence included, and whose undeclared fields are zero.
C15_RoundTripOfWireAttr ==
    codec.pc = "parsed" /\ WireCarries(codec.a) =>
        codec.back.ok /\ SameDeclared(codec.a, codec.back.a)

\* A directory with all five groups declared has gone through the round trip.
C15_Witness ==
    /\ codec.pc = "parsed"
    /\ WireCarries(codec.a)
    /\ codec.a.Flags = {ssh_FILEXFER_ATTR_SIZE, ssh_FILEXFER_ATTR_UIDGID,
                        ssh_FILEXFER_ATTR_PERMISSIONS, ssh_FILEXFER_ATTR_ACMODTIME,
                        ssh_FILEXFER_ATTR_EXTENDED}
    /\ MODE_DIR \in codec.a.Mode
    /\ Len(codec.a.Extended) = 4
    /\ codec.back.a = codec.a

\* C17: in every reachable state of a channel session the live handles, file handles
\* and directory handles together, number at most 256 (maxFiles), whatever OPEN and
\* OPENDIR requests were served.
C17_TotalHandleLimit == nfiles(h) + ndir(h) <= maxFiles

\* C18: at most one ServeChannel task runs on a session channel at any time, whatever
\* requests the client sends on it, several "subsystem sftp" requests included.
C18_OneServeChannelPerChannel ==
    Cardinality({t \in 1..Len(srv.tasks) : srv.tasks[t] = "ServeChannel"}) <= 1

\* C19: every call of BlockTillReady returns only after runServer has tried to listen,
\* and returns the result of that attempt: the listen error if listening failed (in
\* every call, not only in the first to receive), nil if it succeeded.
C19_EveryCallReturnsListenResult ==
    \A c \in Callers : \A i \in 1..Len(srv.btr[c]) :
        /\ srv.run.pc \notin {"new", "listen"}
        /\ srv.btr[c][i] = srv.run.e

\* C20: once runServer has tried to listen, every call of Close returns without
\* failure, whether listening succeeded or failed; and the listener, if there is one,
\* is closed exactly once: never twice, and once when the calls of Close made so far
\* have all returned.
C20_CloseAlwaysReturns ==
    /\ \A c \in Callers : srv.close[c].pc # "panicked"
    /\ srv.lisCloses <= 1
    /\ /\ \E c \in Callers : srv.close[c].n > 0
       /\ \A c \in Callers : srv.close[c].pc = "idle"
       /\ srv.run.e = Nil
       => srv.lisCloses = 1

\* C21: a pass that reads an FSTAT for a live file handle calls the backend's Stat
\* exactly once, on the path stored by the OPEN, with the flag LSTAT passes (islstat
\* true: links are not followed), and answers with ATTRS or, on error, with a status.
C21_FstatDoesNotFollowLinks ==
    LastReq({"FSTAT"}) /\ getFile(h, req.handle) # NilFileOpenArgs =>
        /\ Len(calls) = 1
        /\ calls[1].fn = "Stat"
        /\ calls[1].arg = <<getFile(h, req.handle).name, TRUE>>
        /\ ~ret.done => sent = <<writeAttr(req.id, StatAttr, calls[1].err)>>

\* C22: when ServeChannel returns because of an invalid handle (on READ, WRITE, FSTAT,
\* FSETSTAT or READDIR) or because a request body does not parse to its end, and the
\* channel still takes writes, the pass that returns has written a status response
\* for the offending request.
C22_StatusBeforeFatalReturn ==
    ret.done /\ ret.err \in {errInvalidHandle, ErrParse} /\ ~wbroken =>
        /\ Len(sent) = 1
        /\ sent[1].t = "STATUS"
        /\ sent[1].code # ssh_FX_OK

\* C23: every packet header is read exactly where the packets before it end, at the sum
\* of 4 + length over them, whether the earlier requests were answered, failed without
\* ending the session or had an unknown opcode; and a packet whose length field leaves
\* fewer than 2 body bytes, or whose body is larger than the 64 KiB frame of the
\* reader, makes ServeChannel return.
C23_FramingStaysSynchronized ==
    /\ brd.skew = 0
    /\ req # NoReq /\ brd.end - 5 < 2 => ret.done /\ ret.err = ErrPacketTooShort
    /\ req # NoReq /\ brd.end - 5 > 64 * 1024 => ret.done /\ ret.err = ErrBufferFull

\* The header of a third packet, of unknown opcode, was read in place after an OPEN and
\* a READ whose first ReadAt failed and whose status was written at the top of the loop.
C23_Witness ==
    /\ Running
    /\ ~wbroken
    /\ nreq = 3
    /\ req.op = "UNKNOWN"
    /\ faults = 1
    /\ DOMAIN h.fr # {}
    /\ nresp = 2
    /\ brd = [off |-> 5, end |-> 4 + (plen + 1), skew |-> 0]

\* C24: while the session runs, every file, transfer handle or directory stream the
\* backend has handed out is stored in the handle table under a handle (and is closed
\* by its CLOSE) or has been closed, also after a failed initial seek and after a
\* failed first read or write on a new adapter.
C24_NoResourceLeak ==
    Running =>
        \A i \in 1..Len(fs.res) :
            \/ fs.res[i].closes >= 1
            \/ \E k \in HandleKeys(h) : i \in StoredResources(h, k)

\* C25: in every state of the handle table adapters exist only for live handles: the
\* keys of the reader map and of the writer map are keys of the open-file map, the
\* keys of the directory-reader map are keys of the open-directory map (a map gives a
\* handle at most one adapter of a direction), file keys start with "f" and directory
\* keys with "d".
C25_AdaptersOnlyForLiveHandles ==
    /\ DOMAIN h.fr \subseteq DOMAIN h.f
    /\ DOMAIN h.fw \subseteq DOMAIN h.f
    /\ DOMAIN h.dr \subseteq DOMAIN h.d
    /\ \A k \in DOMAIN h.f : k # <<>> /\ k[1] = "f"
    /\ \A k \in DOMAIN h.d : k # <<>> /\ k[1] = "d"

\* The one file handle issued had a reader and was closed: the reader's file is closed
\* and the table holds no reader.
C25_Witness ==
    /\ LastReq({"CLOSE"})
    /\ req.handle \in closedH
    /\ \E i \in 1..Len(fs.res) : fs.res[i].closes = 1
    /\ DOMAIN h.fr = {}
    /\ h.c = 1

\* Map m2 holds every entry of map m whose key is not k, unchanged, and no new key.
OthersKept(m, m2, k) ==
    /\ DOMAIN m2 \subseteq DOMAIN m
    /\ \A j \in DOMAIN m \ {k} : j \in DOMAIN m2 /\ m2[j] = m[j]

\* C26: a pass that reads a CLOSE for a handle leaves the entries of every other handle
\* in the five collections and the handle counter unchanged; and a CLOSE for the empty
\* handle, for a handle never issued or for a handle already closed leaves the whole
\* table unchanged and closes no adapter.
C26_CloseTouchesOnlyItsHandle ==
    [][(nreq' = nreq + 1 /\ req'.op = "CLOSE" /\ "malformed" \notin DOMAIN req') =>
           LET k == req'.handle
           IN  /\ h'.c = h.c
               /\ OthersKept(h.f, h'.f, k)
               /\ OthersKept(h.d, h'.d, k)
               /\ OthersKept(h.fw, h'.fw, k)
               /\ OthersKept(h.fr, h'.fr, k)
               /\ OthersKept(h.dr, h'.dr, k)
               /\ (k = <<>> \/ k \notin Range(issued) \/ k \in closedH) =>
                      h' = h /\ calls' = <<>> /\ fs' = fs]_vars

\* A CLOSE for a file handle that was never issued was processed while an issued handle
\* had a reader, which is still in the table.
C26_Witness ==
    /\ LastReq({"CLOSE"})
    /\ req.handle # <<>>
    /\ req.handle[1] = "f"
    /\ req.handle \notin Range(issued)
    /\ DOMAIN h.fr # {}
    /\ calls = <<>>
    /\ sent = <<writeErrCode(req.id, ssh_FX_OK)>>
====
